---- MODULE Spec2Model ----
(***************************************************************************)
(* Request tracing of axum-otel / tracing-otel-extra.                      *)
(*                                                                         *)
(* Text is a sequence of one-character strings, so that formatting,        *)
(* splitting and parsing are computed and not assumed.  An Option<T> is a  *)
(* sequence of length at most one: None is << >> and Some(v) is <<v>>.     *)
(*                                                                         *)
(* Environment: the tracing runtime keeps the fields a span is created     *)
(* with and the values recorded on it; the span is enabled and carries an  *)
(* OpenTelemetry context whose trace id the tracer's id generator made.    *)
(* The process-wide text map propagator starts as the no-op propagator     *)
(* and becomes the W3C trace-context propagator when it is installed.      *)
(***************************************************************************)
EXTENDS Integers, Sequences, FiniteSets, TLC

VARIABLES
    propagator,   \* the process-wide text map propagator
    creator,      \* the AxumOtelSpanCreator of the trace layer
    pc,           \* where the trace layer is with the current request
    request,      \* Option: the request being handled
    response,     \* Option: the status code of the inner service's response
    span,         \* Option: the current request's span
    call,         \* the last handler invocation and the span it was given
    handlers,     \* the AxumOtelOnResponse and AxumOtelOnFailure of the layer
    events,       \* the events the last handler invocation emitted
    context,      \* the opentelemetry Context a caller of trace/http.rs holds
    outbound,     \* the headers of the message that caller is about to send
    input,        \* the text handed to a configuration deserializer
    output,       \* Option: what the deserializer returned
    subscriber,   \* whether a global default tracing subscriber is set
    providers,    \* the tracer and meter providers built so far
    guards        \* the ProviderGuard values that are alive

vars == <<propagator, creator, pc, request, response, span, call,
          handlers, events, context, outbound, input, output,
          subscriber, providers, guards>>

(* The state of the callers of trace/http.rs, of the deserializers and of  *)
(* the initialization of the process.                                      *)
aside == <<context, outbound, input, output, subscriber, providers, guards>>

(***************************************************************************)
(* Option and text helpers                                                 *)
(***************************************************************************)
None == << >>

Some(v) == <<v>>

IsSome(o) == Len(o) = 1

Unwrap(o) == o[1]

Rep(c, n) == [i \in 1..n |-> c]

SpaceChars == {" ", "\t"}

RECURSIVE TrimStart(_)
TrimStart(s) ==
    IF s # << >> /\ Head(s) \in SpaceChars THEN TrimStart(Tail(s)) ELSE s

RECURSIVE TrimEnd(_)
TrimEnd(s) ==
    IF s # << >> /\ s[Len(s)] \in SpaceChars
    THEN TrimEnd(SubSeq(s, 1, Len(s) - 1))
    ELSE s

Trim(s) == TrimEnd(TrimStart(s))

(* str::split: the pieces of s between occurrences of sep (always >= 1). *)
RECURSIVE SplitFrom(_, _, _)
SplitFrom(s, sep, cur) ==
    IF s = << >> THEN <<cur>>
    ELSE IF Head(s) = sep THEN <<cur>> \o SplitFrom(Tail(s), sep, << >>)
    ELSE SplitFrom(Tail(s), sep, Append(cur, Head(s)))

Split(s, sep) == SplitFrom(s, sep, << >>)

(* str::split_terminator: as split, without a trailing empty piece. *)
SplitTerminator(s, sep) ==
    LET p == Split(s, sep)
    IN  IF p[Len(p)] = << >> THEN SubSeq(p, 1, Len(p) - 1) ELSE p

(***************************************************************************)
(* Header values: bytes.  OpaqueByte stands for a byte outside visible     *)
(* ASCII, which HeaderValue::to_str refuses.                               *)
(***************************************************************************)
OpaqueByte == "\\xff"

to_str(value) ==
    IF \A i \in 1..Len(value) : value[i] # OpaqueByte THEN Some(value) ELSE None

X_REQUEST_ID == "x-request-id"

REQUEST_ID == "request-id"

TRACEPARENT_HEADER == "traceparent"

USER_AGENT == "user-agent"

HOST == "host"

TRACESTATE_HEADER == "tracestate"

HeaderNames == {X_REQUEST_ID, REQUEST_ID, TRACEPARENT_HEADER, USER_AGENT, HOST}

(* HeaderMap::get: the value stored under a name, if any. *)
HeaderGet(headers, name) == IF name \in DOMAIN headers THEN headers[name] ELSE None

(* HeaderMap::insert: the value replaces what the name held. *)
HeaderInsert(headers, name, value) ==
    [n \in DOMAIN headers \cup {name} |-> IF n = name THEN Some(value) ELSE headers[n]]

(***************************************************************************)
(* request_id.rs                                                           *)
(***************************************************************************)
get_request_id_no_precedence(headers) ==
    LET first == IF IsSome(HeaderGet(headers, REQUEST_ID))
                 THEN HeaderGet(headers, REQUEST_ID)
                 ELSE HeaderGet(headers, X_REQUEST_ID)
        text == IF IsSome(first) THEN to_str(Unwrap(first)) ELSE None
    IN  IF IsSome(text) THEN Unwrap(text) ELSE << >>

get_request_id_falls_back(headers) ==
    LET x == HeaderGet(headers, X_REQUEST_ID)
        text == IF IsSome(x) /\ IsSome(to_str(Unwrap(x))) THEN to_str(Unwrap(x))
                ELSE IF IsSome(HeaderGet(headers, REQUEST_ID))
                THEN to_str(Unwrap(HeaderGet(headers, REQUEST_ID)))
                ELSE None
    IN  IF IsSome(text) THEN Unwrap(text) ELSE << >>

get_request_id(headers) ==
    LET first == IF IsSome(HeaderGet(headers, X_REQUEST_ID))
                 THEN HeaderGet(headers, X_REQUEST_ID)
                 ELSE HeaderGet(headers, REQUEST_ID)
        text == IF IsSome(first) THEN to_str(Unwrap(first)) ELSE None
    IN  IF IsSome(text) THEN Unwrap(text) ELSE << >>

RECURSIVE ResolveListed(_, _)
ResolveListed(headers, precedence) ==
    IF precedence = << >> THEN << >>
    ELSE IF IsSome(HeaderGet(headers, Head(precedence)))
    THEN (IF IsSome(to_str(Unwrap(HeaderGet(headers, Head(precedence)))))
          THEN Unwrap(HeaderGet(headers, Head(precedence))) ELSE << >>)
    ELSE ResolveListed(headers, Tail(precedence))

(* What a caller that wants the headers looked up in `precedence` gets:   *)
(* get_request_id takes the headers alone.                                 *)
Resolve(headers, precedence) == get_request_id(headers)

(***************************************************************************)
(* Identifiers.  A TraceId is a 128-bit number and a SpanId a 64-bit       *)
(* number, kept as their hexadecimal digits (32 and 16 values in 0..15),   *)
(* most significant first.                                                 *)
(***************************************************************************)
TraceIdDigits == 32

SpanIdDigits == 16

ByteDigits == 2

HexChars == <<"0", "1", "2", "3", "4", "5", "6", "7",
              "8", "9", "a", "b", "c", "d", "e", "f">>

UpperHexChars == <<"A", "B", "C", "D", "E", "F">>

IsUpper(c) == \E i \in 1..Len(UpperHexChars) : UpperHexChars[i] = c

IsHexChar(c) == IsUpper(c) \/ \E i \in 1..Len(HexChars) : HexChars[i] = c

(* char::to_digit(16): both cases are digits. *)
HexVal(c) ==
    IF IsUpper(c)
    THEN 9 + (CHOOSE i \in 1..Len(UpperHexChars) : UpperHexChars[i] = c)
    ELSE (CHOOSE i \in 1..Len(HexChars) : HexChars[i] = c) - 1

RECURSIVE StripZeros(_)
StripZeros(d) == IF d # << >> /\ Head(d) = 0 THEN StripZeros(Tail(d)) ELSE d

(* uN::from_str_radix(text, 16) for a number of `width` hex digits: an   *)
(* optional leading '+', then one or more digits of either case; Err on   *)
(* an empty or non-digit text and on overflow.                            *)
from_str_radix(text, width) ==
    LET body == IF Len(text) > 1 /\ Head(text) = "+" THEN Tail(text) ELSE text
    IN  IF body = << >> \/ \E i \in 1..Len(body) : ~IsHexChar(body[i])
        THEN None
        ELSE LET digits == StripZeros([i \in 1..Len(body) |-> HexVal(body[i])])
             IN  IF Len(digits) > width
                 THEN None
                 ELSE Some(Rep(0, width - Len(digits)) \o digits)

(* Display of TraceId / SpanId: {:032x} / {:016x}. *)
IdToString(id) == [i \in 1..Len(id) |-> HexChars[id[i] + 1]]

ByteValue(d) == 16 * d[1] + d[2]

INVALID_TRACE_ID == Rep(0, TraceIdDigits)

INVALID_SPAN_ID == Rep(0, SpanIdDigits)

AnyVersion == 16 * 16 - 1

MAX_VERSION == 254

(* A TraceState is the list of its (key, value) entries, in order. *)
TraceStateDefault == << >>

SpanContext(trace_id, span_id, trace_flags, is_remote, trace_state) ==
    [trace_id |-> trace_id, span_id |-> span_id,
     trace_flags |-> trace_flags, is_remote |-> is_remote,
     trace_state |-> trace_state]

(* SpanContext::empty_context(): what a Context without a span reports. *)
EmptySpanContext ==
    SpanContext(INVALID_TRACE_ID, INVALID_SPAN_ID, 0, FALSE, TraceStateDefault)

is_valid(sc) == sc.trace_id # INVALID_TRACE_ID /\ sc.span_id # INVALID_SPAN_ID

(***************************************************************************)
(* The W3C trace-context propagator's extraction of `traceparent`, the     *)
(* function the process-wide propagator runs for set_otel_parent.  Err is  *)
(* None.                                                                   *)
(***************************************************************************)
HeaderExtractorGet(headers, name) ==
    IF IsSome(HeaderGet(headers, name))
    THEN to_str(Unwrap(HeaderGet(headers, name)))
    ELSE None

(* str::find: the index of the first occurrence of c, 0 when there is none. *)
Find(s, c) ==
    IF \E i \in 1..Len(s) : s[i] = c
    THEN CHOOSE i \in 1..Len(s) : s[i] = c /\ \A j \in 1..(i - 1) : s[j] # c
    ELSE 0

RECURSIVE TrimStartMatches(_, _)
TrimStartMatches(s, c) ==
    IF s # << >> /\ Head(s) = c THEN TrimStartMatches(Tail(s), c) ELSE s

LowerAlnum ==
    {"a", "b", "c", "d", "e", "f", "g", "h", "i", "j", "k", "l", "m", "n", "o", "p",
     "q", "r", "s", "t", "u", "v", "w", "x", "y", "z",
     "0", "1", "2", "3", "4", "5", "6", "7", "8", "9"}

(* TraceState::valid_key for keys without a vendor part ("@"). *)
valid_key(key) ==
    /\ \A i \in 1..Len(key) : key[i] \in LowerAlnum \cup {"_", "-", "*", "/"}
    /\ (key # << >> => key[1] \in LowerAlnum)

valid_value(value) == \A i \in 1..Len(value) : value[i] \notin {",", "="}

(* TraceState::from_str: the list members between commas, each split at   *)
(* its first '='; Err (None) when a member has no '=' or an entry is not  *)
(* valid.                                                                  *)
TraceStateFromStr(s) ==
    LET list_members == SplitTerminator(s, ",")
        key(m) == SubSeq(m, 1, Find(m, "=") - 1)
        value(m) == TrimStartMatches(SubSeq(m, Find(m, "="), Len(m)), "=")
    IN  IF \E i \in 1..Len(list_members) : Find(list_members[i], "=") = 0
        THEN None
        ELSE IF \E i \in 1..Len(list_members) :
                    ~valid_key(key(list_members[i])) \/ ~valid_value(value(list_members[i]))
        THEN None
        ELSE Some([i \in 1..Len(list_members) |->
                      <<key(list_members[i]), value(list_members[i])>>])

(* The trace state of an extracted context: the parsed tracestate header, *)
(* the default one when the header is absent or does not parse.           *)
ExtractedTraceState(headers) ==
    LET got == HeaderExtractorGet(headers, TRACESTATE_HEADER)
    IN  IF IsSome(got) /\ IsSome(TraceStateFromStr(Unwrap(got)))
        THEN Unwrap(TraceStateFromStr(Unwrap(got)))
        ELSE TraceStateDefault

extract_span_context(headers) ==
    LET got == HeaderExtractorGet(headers, TRACEPARENT_HEADER)
        header_value == Trim(IF IsSome(got) THEN Unwrap(got) ELSE << >>)
        parts == SplitTerminator(header_value, "-")
    IN  IF Len(parts) < 4 THEN None
        ELSE LET version == from_str_radix(parts[1], ByteDigits)
                 trace_id == from_str_radix(parts[2], TraceIdDigits)
                 span_id == from_str_radix(parts[3], SpanIdDigits)
                 opts == from_str_radix(parts[4], ByteDigits)
             IN  IF ~IsSome(version) THEN None
                 ELSE IF ByteValue(Unwrap(version)) > MAX_VERSION
                         \/ (ByteValue(Unwrap(version)) = 0 /\ Len(parts) # 4)
                 THEN None
                 ELSE IF \E i \in 1..Len(parts[2]) : IsUpper(parts[2][i]) THEN None
                 ELSE IF ~IsSome(trace_id) THEN None
                 ELSE IF \E i \in 1..Len(parts[3]) : IsUpper(parts[3][i]) THEN None
                 ELSE IF ~IsSome(span_id) THEN None
                 ELSE IF ~IsSome(opts) THEN None
                 ELSE IF ByteValue(Unwrap(version)) = 0 /\ ByteValue(Unwrap(opts)) > 2
                 THEN None
                 ELSE LET sc == SpanContext(Unwrap(trace_id), Unwrap(span_id),
                                            ByteValue(Unwrap(opts)) % 2, TRUE,
                                            ExtractedTraceState(headers))
                      IN  IF is_valid(sc) THEN Some(sc) ELSE None

(* global::get_text_map_propagator(|p| p.extract(..)): the remote context's *)
(* span context.  The no-op propagator extracts nothing.                    *)
NoopPropagator == "NoopTextMapPropagator"

TraceContextPropagator == "TraceContextPropagator"

Propagators == {NoopPropagator, TraceContextPropagator}

extract_with_any_propagator(prop, headers) ==
    IF IsSome(extract_span_context(headers))
    THEN Unwrap(extract_span_context(headers))
    ELSE EmptySpanContext

extract(prop, headers) ==
    IF prop = TraceContextPropagator /\ IsSome(extract_span_context(headers))
    THEN Unwrap(extract_span_context(headers))
    ELSE EmptySpanContext

(***************************************************************************)
(* The W3C trace-context propagator's injection, the function the          *)
(* process-wide propagator runs for trace/http.rs.                         *)
(***************************************************************************)
SUPPORTED_VERSION == 0

(* {:02x} of a byte *)
Hex2(byte) == <<HexChars[(byte \div 16) + 1], HexChars[(byte % 16) + 1]>>

(* {:x} of a byte *)
Hex(byte) ==
    IF byte < 16 THEN <<HexChars[byte + 1]>> ELSE Hex2(byte)

RECURSIVE Join(_, _)
Join(pieces, sep) ==
    IF pieces = << >> THEN << >>
    ELSE IF Len(pieces) = 1 THEN pieces[1]
    ELSE pieces[1] \o sep \o Join(Tail(pieces), sep)

TraceStateHeaderReversed(trace_state) ==
    Join([i \in 1..Len(trace_state) |->
             trace_state[Len(trace_state) + 1 - i][1] \o <<"=">>
                 \o trace_state[Len(trace_state) + 1 - i][2]], <<",">>)

(* TraceState::header: key=value entries joined with ','. *)
TraceStateHeader(trace_state) ==
    Join([i \in 1..Len(trace_state) |->
             trace_state[i][1] \o <<"=">> \o trace_state[i][2]], <<",">>)

(* HeaderInjector::set *)
HeaderInjectorSet(headers, key, value) == HeaderInsert(headers, key, value)

inject_context_unpadded(span_context, headers) ==
    IF is_valid(span_context)
    THEN LET header_value ==
                 Hex(SUPPORTED_VERSION) \o <<"-">>
                     \o IdToString(span_context.trace_id) \o <<"-">>
                     \o IdToString(span_context.span_id) \o <<"-">>
                     \o Hex(span_context.trace_flags % 2)
         IN  HeaderInjectorSet(HeaderInjectorSet(headers, TRACEPARENT_HEADER, header_value),
                               TRACESTATE_HEADER,
                               TraceStateHeader(span_context.trace_state))
    ELSE headers

inject_context_always(span_context, headers) ==
    LET header_value ==
            Hex2(SUPPORTED_VERSION) \o <<"-">>
                \o IdToString(span_context.trace_id) \o <<"-">>
                \o IdToString(span_context.span_id) \o <<"-">>
                \o Hex2(span_context.trace_flags % 2)
    IN  HeaderInjectorSet(HeaderInjectorSet(headers, TRACEPARENT_HEADER, header_value),
                          TRACESTATE_HEADER,
                          TraceStateHeader(span_context.trace_state))

(* TraceContextPropagator::inject_context: nothing is set unless the      *)
(* context's span context is valid; the flags keep the sampled bit only.  *)
inject_context(span_context, headers) ==
    IF is_valid(span_context)
    THEN LET header_value ==
                 Hex2(SUPPORTED_VERSION) \o <<"-">>
                     \o IdToString(span_context.trace_id) \o <<"-">>
                     \o IdToString(span_context.span_id) \o <<"-">>
                     \o Hex2(span_context.trace_flags % 2)
         IN  HeaderInjectorSet(HeaderInjectorSet(headers, TRACEPARENT_HEADER, header_value),
                               TRACESTATE_HEADER,
                               TraceStateHeader(span_context.trace_state))
    ELSE headers

(* global::get_text_map_propagator(|p| p.inject_context(..)): the no-op   *)
(* propagator injects nothing.                                            *)
inject(prop, span_context, headers) ==
    IF prop = TraceContextPropagator THEN inject_context(span_context, headers)
    ELSE headers

(***************************************************************************)
(* trace/http.rs.  A Context is modelled by the span context of its span,  *)
(* which is the empty span context when the Context has no span.           *)
(***************************************************************************)
extract_context_from_headers(prop, headers) == extract(prop, headers)

extract_context_from_request(prop, req) == extract(prop, req.headers)

inject_context_into_request(prop, cx, headers) == inject(prop, cx, headers)

inject_context_into_response(prop, cx, headers) == inject(prop, cx, headers)

(***************************************************************************)
(* Requests                                                                *)
(***************************************************************************)
GET == <<"G", "E", "T">>

POST == <<"P", "O", "S", "T">>

Methods == {GET, POST}

Routes == {<<"/", "u", "/", "{", "i", "d", "}">>}

Targets == {<<"/", "u", "/", "7", "?", "q">>}

Schemes == {<<"h", "t", "t", "p">>}

PeerAddrs == {<<"1", ".", "2", ".", "3", ".", "4", ":", "8", "0">>}

HTTP_11 == <<"H", "T", "T", "P", "/", "1", ".", "1">>

TraceparentOf(version, trace_id, span_id, flags) ==
    version \o <<"-">> \o trace_id \o <<"-">> \o span_id \o <<"-">> \o flags

(* 4bf92f3577b34da6a3ce929d0e0e4736 and 00f067aa0ba902b7 *)
SampleTraceId ==
    <<"4", "b", "f", "9", "2", "f", "3", "5", "7", "7", "b", "3", "4", "d", "a", "6",
      "a", "3", "c", "e", "9", "2", "9", "d", "0", "e", "0", "e", "4", "7", "3", "6">>

SampleSpanId ==
    <<"0", "0", "f", "0", "6", "7", "a", "a", "0", "b", "a", "9", "0", "2", "b", "7">>

ValidTraceparent == TraceparentOf(<<"0", "0">>, SampleTraceId, SampleSpanId, <<"0", "1">>)

InvalidTraceparent == <<"i", "n", "v", "a", "l", "i", "d">>

ZeroTraceTraceparent ==
    TraceparentOf(<<"0", "0">>, Rep("0", TraceIdDigits), SampleSpanId, <<"0", "1">>)

OpaqueTraceparent == <<OpaqueByte>> \o ValidTraceparent

TraceparentValues ==
    {ValidTraceparent, InvalidTraceparent, ZeroTraceTraceparent, OpaqueTraceparent}

XRequestIdValues == {<<"a">>, <<OpaqueByte, "c">>}

RequestIdValues == {<<"b">>, <<"d", OpaqueByte>>}

HostValues == {<<"h", ".", "i", "o">>, <<OpaqueByte>>}

UserAgentValues == {<<"c", "u", "r", "l">>}

Opt(S) == {None} \cup {Some(v) : v \in S}

HeaderMaps ==
    {[n \in HeaderNames |->
        CASE n = X_REQUEST_ID -> x
          [] n = REQUEST_ID -> r
          [] n = TRACEPARENT_HEADER -> t
          [] n = USER_AGENT -> u
          [] n = HOST -> h] :
        x \in Opt(XRequestIdValues), r \in Opt(RequestIdValues),
        t \in Opt(TraceparentValues), u \in Opt(UserAgentValues),
        h \in Opt(HostValues)}

Requests ==
    [method : Methods, matched_path : Opt(Routes), headers : HeaderMaps,
     scheme : Opt(Schemes), path_and_query : Opt(Targets),
     connect_info : Opt(PeerAddrs), version : {HTTP_11}]

(* Trace ids the tracer's id generator hands to new root spans. *)
GeneratedTraceIds ==
    {Rep(0, TraceIdDigits - 1) \o <<1>>, <<10>> \o Rep(0, TraceIdDigits - 1)}

(***************************************************************************)
(* Levels                                                                  *)
(***************************************************************************)
Levels == {"ERROR", "WARN", "INFO", "DEBUG", "TRACE"}

(* AxumOtelSpanCreator::new() *)
NewSpanCreator == [level |-> "TRACE"]

(***************************************************************************)
(* otel.rs: set_otel_parent                                                *)
(***************************************************************************)
(* span.context().span().span_context().trace_id(): the parent's trace id  *)
(* when the span has a valid parent context, else the generated one.        *)
SpanTraceId(sp) ==
    IF is_valid(sp.parent_cx) THEN sp.parent_cx.trace_id ELSE sp.builder_trace_id

set_otel_parent_always_remote(prop, headers, sp) ==
    LET remote_span_context == extract(prop, headers)
        trace_id == IdToString(remote_span_context.trace_id)
    IN  [sp EXCEPT !.parent_cx = remote_span_context,
                   !.trace_id = Some(trace_id)]

set_otel_parent_never_remote(prop, headers, sp) ==
    LET trace_id == IdToString(SpanTraceId(sp))
    IN  [sp EXCEPT !.trace_id = Some(trace_id)]

set_otel_parent(prop, headers, sp) ==
    LET remote_span_context == extract(prop, headers)
        trace_id == IF is_valid(remote_span_context)
                    THEN IdToString(remote_span_context.trace_id)
                    ELSE IdToString(SpanTraceId(sp))
    IN  [sp EXCEPT !.parent_cx = remote_span_context,
                   !.trace_id = Some(trace_id)]

(***************************************************************************)
(* make_span.rs: AxumOtelSpanCreator::make_span                            *)
(***************************************************************************)
(* {:?} of a text value: the text between double quotes. *)
DebugStr(text) == <<"\"">> \o text \o <<"\"">>

(* Option::map(debug) on the URI scheme. *)
DebugScheme(o) == IF IsSome(o) THEN Some(DebugStr(Unwrap(o))) ELSE None

(* Option::map(debug) on the peer address: {:?} of a SocketAddr is its text. *)
DebugAddr(o) == IF IsSome(o) THEN Some(Unwrap(o)) ELSE None

HeaderText(headers, name) ==
    IF IsSome(HeaderGet(headers, name)) THEN to_str(Unwrap(HeaderGet(headers, name)))
    ELSE None

SpanNameNoSpace(http_method, http_route) ==
    IF IsSome(http_route) THEN http_method \o Unwrap(http_route) ELSE http_method

SpanName(http_method, http_route) ==
    IF IsSome(http_route)
    THEN http_method \o <<" ">> \o Unwrap(http_route)
    ELSE http_method

NewSpanFinalized(level, req, generated) ==
    [level |-> level,
     name |-> <<"r", "e", "q", "u", "e", "s", "t">>,
     http_client_ip |-> DebugAddr(req.connect_info),
     http_versions |-> Some(req.version),
     http_host |-> HeaderText(req.headers, HOST),
     http_method |-> Some(req.method),
     http_route |-> req.matched_path,
     http_scheme |-> DebugScheme(req.scheme),
     http_status_code |-> None,
     http_target |-> req.path_and_query,
     http_user_agent |-> HeaderText(req.headers, USER_AGENT),
     otel_name |-> Some(SpanName(req.method, req.matched_path)),
     otel_kind |-> Some(<<"S", "e", "r", "v", "e", "r">>),
     otel_status_code |-> Some(<<"O", "K">>),
     request_id |-> Some(get_request_id(req.headers)),
     trace_id |-> None,
     builder_trace_id |-> generated,
     parent_cx |-> EmptySpanContext]

(* tracing::span!($level, "request", ...): the fields the span starts with. *)
NewSpan(level, req, generated) ==
    [level |-> level,
     name |-> <<"r", "e", "q", "u", "e", "s", "t">>,
     http_client_ip |-> DebugAddr(req.connect_info),
     http_versions |-> Some(req.version),
     http_host |-> HeaderText(req.headers, HOST),
     http_method |-> Some(req.method),
     http_route |-> req.matched_path,
     http_scheme |-> DebugScheme(req.scheme),
     http_status_code |-> None,
     http_target |-> req.path_and_query,
     http_user_agent |-> HeaderText(req.headers, USER_AGENT),
     otel_name |-> Some(SpanName(req.method, req.matched_path)),
     otel_kind |-> Some(<<"S", "e", "r", "v", "e", "r">>),
     otel_status_code |-> None,
     request_id |-> Some(get_request_id(req.headers)),
     trace_id |-> None,
     builder_trace_id |-> generated,
     parent_cx |-> EmptySpanContext]

make_span(self, prop, req, generated) ==
    LET sp == CASE self.level = "ERROR" -> NewSpan("ERROR", req, generated)
                [] self.level = "WARN" -> NewSpan("WARN", req, generated)
                [] self.level = "INFO" -> NewSpan("INFO", req, generated)
                [] self.level = "DEBUG" -> NewSpan("DEBUG", req, generated)
                [] self.level = "TRACE" -> NewSpan("TRACE", req, generated)
    IN  set_otel_parent(prop, req.headers, sp)

(***************************************************************************)
(* on_response.rs and on_failure.rs                                        *)
(***************************************************************************)
StatusCodes == {100, 200, 404, 499, 500, 503, 599, 600, 999}

(* StatusCode::is_server_error *)
is_server_error(status) == 600 > status /\ status >= 500

DecDigits == <<"0", "1", "2", "3", "4", "5", "6", "7", "8", "9">>

(* Display of a u16. *)
RECURSIVE DecimalString(_)
DecimalString(n) ==
    IF n < 10 THEN <<DecDigits[n + 1]>>
    ELSE Append(DecimalString(n \div 10), DecDigits[(n % 10) + 1])

OK == <<"O", "K">>

ERROR == <<"E", "R", "R", "O", "R">>

StatusCodeClass(status) == [kind |-> "StatusCode", code |-> status]

ErrorClass == [kind |-> "Error", code |-> 0]

FailureClasses == {StatusCodeClass(s) : s \in StatusCodes} \cup {ErrorClass}

on_response_ok_if_success(sp, status) ==
    [sp EXCEPT !.http_status_code = Some(DecimalString(status)),
               !.otel_status_code =
                   IF status < 400 THEN Some(OK) ELSE sp.otel_status_code]

on_response(sp, status) ==
    [sp EXCEPT !.http_status_code = Some(DecimalString(status)),
               !.otel_status_code = Some(OK)]

on_failure_unless_written(sp, class) ==
    IF class.kind = "StatusCode" /\ is_server_error(class.code)
       /\ sp.otel_status_code = None
    THEN [sp EXCEPT !.otel_status_code = Some(ERROR)]
    ELSE sp

on_failure_at_least_500(sp, class) ==
    IF class.kind = "StatusCode" /\ class.code >= 500
    THEN [sp EXCEPT !.otel_status_code = Some(ERROR)]
    ELSE sp

on_failure(sp, class) ==
    IF class.kind = "StatusCode" /\ is_server_error(class.code)
    THEN [sp EXCEPT !.otel_status_code = Some(ERROR)]
    ELSE sp

(***************************************************************************)
(* macros.rs: dyn_event! and dyn_span!.  An emission is what reaches the   *)
(* tracing runtime: the level of the static call site and the fields.  A   *)
(* dispatch returns the emissions it made, in order.                       *)
(***************************************************************************)
(* tracing::event!(LEVEL, fields) *)
event(level, fields) == [level |-> level, fields |-> fields]

(* tracing::span!(LEVEL, name, fields) *)
new_span(level, name, fields) == [level |-> level, name |-> name, fields |-> fields]

dyn_event_swapped(lvl, fields) ==
    CASE lvl = "ERROR" -> <<event("ERROR", fields)>>
      [] lvl = "WARN" -> <<event("WARN", fields)>>
      [] lvl = "INFO" -> <<event("INFO", fields)>>
      [] lvl = "DEBUG" -> <<event("TRACE", fields)>>
      [] lvl = "TRACE" -> <<event("DEBUG", fields)>>

dyn_event(lvl, fields) ==
    CASE lvl = "ERROR" -> <<event("ERROR", fields)>>
      [] lvl = "WARN" -> <<event("WARN", fields)>>
      [] lvl = "INFO" -> <<event("INFO", fields)>>
      [] lvl = "DEBUG" -> <<event("DEBUG", fields)>>
      [] lvl = "TRACE" -> <<event("TRACE", fields)>>

dyn_span(lvl, name, fields) ==
    CASE lvl = "ERROR" -> <<new_span("ERROR", name, fields)>>
      [] lvl = "WARN" -> <<new_span("WARN", name, fields)>>
      [] lvl = "INFO" -> <<new_span("INFO", name, fields)>>
      [] lvl = "DEBUG" -> <<new_span("DEBUG", name, fields)>>
      [] lvl = "TRACE" -> <<new_span("TRACE", name, fields)>>

(***************************************************************************)
(* The closing events of on_response.rs and on_failure.rs                  *)
(***************************************************************************)
(* AxumOtelOnResponse::new() and AxumOtelOnFailure::new() *)
NewOnResponse == [level |-> "DEBUG"]

NewOnFailure == [level |-> "ERROR"]

(* The level(..) builder of the three components. *)
set_level(self, lvl) == [self EXCEPT !.level = lvl]

(* Latencies in microseconds; Duration::as_millis drops the remainder. *)
Latencies == {999, 1500}

as_millis(latency) == latency \div 1000

(* StatusCode::canonical_reason, for the codes of StatusCodes. *)
canonical_reason(status) ==
    CASE status = 100 -> Some(<<"C", "o", "n", "t", "i", "n", "u", "e">>)
      [] status = 200 -> Some(<<"O", "K">>)
      [] status = 404 -> Some(<<"N", "o", "t", " ", "F", "o", "u", "n", "d">>)
      [] status = 500 -> Some(<<"I", "n", "t", "e", "r", "n", "a", "l", " ",
                                "S", "e", "r", "v", "e", "r", " ",
                                "E", "r", "r", "o", "r">>)
      [] status = 503 -> Some(<<"S", "e", "r", "v", "i", "c", "e", " ",
                                "U", "n", "a", "v", "a", "i", "l", "a", "b", "l", "e">>)
      [] OTHER -> None

(* Display of a StatusCode: the code, a space, the reason. *)
StatusCodeDisplay(status) ==
    DecimalString(status) \o <<" ">> \o
        (IF IsSome(canonical_reason(status)) THEN Unwrap(canonical_reason(status))
         ELSE <<"<", "u", "n", "k", "n", "o", "w", "n", " ", "s", "t", "a", "t", "u", "s",
                " ", "c", "o", "d", "e", ">">>)

(* The text of the error a failed service returned. *)
ErrorText == <<"t", "i", "m", "e", "d", " ", "o", "u", "t">>

(* Display of a ServerErrorsFailureClass. *)
ClassDisplay(class) ==
    IF class.kind = "StatusCode"
    THEN <<"S", "t", "a", "t", "u", "s", " ", "c", "o", "d", "e", ":", " ">>
             \o StatusCodeDisplay(class.code)
    ELSE <<"E", "r", "r", "o", "r", ":", " ">> \o ErrorText

on_response_events_silent_success(self, status, latency) ==
    IF status < 400 THEN << >>
    ELSE dyn_event(self.level,
                   [latency |-> DecimalString(as_millis(latency)),
                    status |-> DecimalString(status),
                    message |-> "finished processing request"])

on_response_events(self, status, latency) ==
    dyn_event(self.level,
              [latency |-> DecimalString(as_millis(latency)),
               status |-> DecimalString(status),
               message |-> "finished processing request"])

on_failure_events(self, class, latency) ==
    dyn_event(self.level,
              [classification |-> ClassDisplay(class),
               latency |-> DecimalString(as_millis(latency)),
               message |-> "response failed"])

(***************************************************************************)
(* The trace layer's handling of one request after another.                *)
(***************************************************************************)
NoCall ==
    [op |-> "none", status |-> 0, class |-> ErrorClass, before |-> None,
     propagator |-> NoopPropagator]

(* A finalizer invocation: as Called, with the latency it was handed. *)
CalledWithLatency(op, status, class, before, latency) ==
    [op |-> op, status |-> status, class |-> class, before |-> before,
     propagator |-> propagator, latency |-> latency]

(* TraceLayer::new_for_http().on_response(..).on_failure(..) *)
NewHandlers == [on_response |-> NewOnResponse, on_failure |-> NewOnFailure]

(* A header map without entries. *)
NoHeaders == [n \in {} |-> None]

(* Nothing has called trace/http.rs or a deserializer. *)
AsideIdle ==
    /\ context = EmptySpanContext
    /\ outbound = NoHeaders
    /\ input = << >>
    /\ output = None
    /\ subscriber = FALSE
    /\ providers = << >>
    /\ guards = << >>

(* A handler invocation: its arguments, the span it was handed and the *)
(* process-wide propagator at that moment.                             *)
Called(op, status, class, before) ==
    [op |-> op, status |-> status, class |-> class, before |-> before,
     propagator |-> propagator]

Init ==
    /\ propagator = NoopPropagator
    /\ creator = NewSpanCreator
    /\ pc = "idle"
    /\ request = None
    /\ response = None
    /\ span = None
    /\ call = NoCall
    /\ handlers = NewHandlers
    /\ events = << >>
    /\ AsideIdle

(* global::set_text_map_propagator(TraceContextPropagator::new()) *)
InstallPropagator ==
    /\ propagator = NoopPropagator
    /\ propagator' = TraceContextPropagator
    /\ UNCHANGED <<creator, pc, request, response, span, call, handlers, events, aside>>

(* A request arrives: make_span, then the inner service is called. *)
Create ==
    /\ pc = "idle"
    /\ \E req \in Requests, generated \in GeneratedTraceIds :
          /\ request' = Some(req)
          /\ span' = Some(make_span(creator, propagator, req, generated))
    /\ pc' = "called"
    /\ response' = None
    /\ call' = Called("make_span", 0, ErrorClass, None)
    /\ events' = << >>
    /\ UNCHANGED <<propagator, creator, handlers, aside>>

ResponseStatusCodes == {200, 404, 500, 503}

(* The inner service answered: on_response; a 5xx answer is classified as *)
(* a failure and on_failure follows.                                      *)
Respond ==
    /\ pc = "called"
    /\ \E status \in ResponseStatusCodes, latency \in Latencies :
          /\ response' = Some(status)
          /\ span' = Some(on_response(Unwrap(span), status))
          /\ events' = on_response_events(handlers.on_response, status, latency)
          /\ call' = CalledWithLatency("on_response", status, ErrorClass, span, latency)
          /\ pc' = IF is_server_error(status) THEN "failing" ELSE "done"
    /\ UNCHANGED <<propagator, creator, request, handlers, aside>>

FailResponse ==
    /\ pc = "failing"
    /\ span' = Some(on_failure(Unwrap(span), StatusCodeClass(Unwrap(response))))
    /\ \E latency \in Latencies :
          /\ events' = on_failure_events(handlers.on_failure,
                                         StatusCodeClass(Unwrap(response)), latency)
          /\ call' = CalledWithLatency("on_failure", 0,
                                       StatusCodeClass(Unwrap(response)), span, latency)
    /\ pc' = "done"
    /\ UNCHANGED <<propagator, creator, request, response, handlers, aside>>

(* The inner service returned an error: on_failure alone. *)
FailService ==
    /\ pc = "called"
    /\ span' = Some(on_failure(Unwrap(span), ErrorClass))
    /\ \E latency \in Latencies :
          /\ events' = on_failure_events(handlers.on_failure, ErrorClass, latency)
          /\ call' = CalledWithLatency("on_failure", 0, ErrorClass, span, latency)
    /\ pc' = "done"
    /\ UNCHANGED <<propagator, creator, request, response, handlers, aside>>

AbortAsFailure ==
    /\ pc = "called"
    /\ pc' = "aborted"
    /\ span' = Some(on_failure(Unwrap(span), ErrorClass))
    /\ \E latency \in Latencies :
          /\ events' = on_failure_events(handlers.on_failure, ErrorClass, latency)
          /\ call' = CalledWithLatency("on_failure", 0, ErrorClass, span, latency)
    /\ UNCHANGED <<propagator, creator, request, response, handlers, aside>>

(* The response future is dropped before the service answered: the layer *)
(* has no hook for it and calls nothing.                                  *)
Abort ==
    /\ pc = "called"
    /\ pc' = "aborted"
    /\ UNCHANGED <<propagator, creator, request, response, span, call, handlers,
                   events, aside>>

(* The span is closed and the layer takes the next request. *)
Close ==
    /\ pc \in {"done", "aborted"}
    /\ pc' = "idle"
    /\ request' = None
    /\ response' = None
    /\ span' = None
    /\ call' = NoCall
    /\ events' = << >>
    /\ UNCHANGED <<propagator, creator, handlers, aside>>

Next ==
    \/ InstallPropagator
    \/ Create
    \/ Respond
    \/ FailResponse
    \/ FailService
    \/ Abort
    \/ Close

Spec == Init /\ [][Next]_vars

(***************************************************************************)
(* The handlers called directly, in any order and with any argument, on a  *)
(* span that make_span returned.                                           *)
(***************************************************************************)
DirectRequests ==
    {req \in Requests :
        /\ req.method = GET
        /\ req.headers = [n \in HeaderNames |-> None]
        /\ req.scheme = None /\ req.path_and_query = None
        /\ req.connect_info = None}

InitCalls ==
    /\ propagator = TraceContextPropagator
    /\ creator = NewSpanCreator
    /\ pc = "direct"
    /\ \E req \in DirectRequests, generated \in GeneratedTraceIds :
          /\ request = Some(req)
          /\ span = Some(make_span(creator, propagator, req, generated))
    /\ response = None
    /\ call = Called("make_span", 0, ErrorClass, None)
    /\ handlers \in [on_response : {set_level(NewOnResponse, l) : l \in Levels},
                      on_failure : {set_level(NewOnFailure, l) : l \in Levels}]
    /\ events = << >>
    /\ AsideIdle

CallOnResponse ==
    /\ pc = "direct"
    /\ \E status \in StatusCodes, latency \in Latencies :
          /\ response' = Some(status)
          /\ span' = Some(on_response(Unwrap(span), status))
          /\ events' = on_response_events(handlers.on_response, status, latency)
          /\ call' = CalledWithLatency("on_response", status, ErrorClass, span, latency)
    /\ UNCHANGED <<propagator, creator, pc, request, handlers, aside>>

CallOnFailure ==
    /\ pc = "direct"
    /\ \E class \in FailureClasses, latency \in Latencies :
          /\ span' = Some(on_failure(Unwrap(span), class))
          /\ events' = on_failure_events(handlers.on_failure, class, latency)
          /\ call' = CalledWithLatency("on_failure", 0, class, span, latency)
    /\ UNCHANGED <<propagator, creator, pc, request, response, handlers, aside>>

NextCalls ==
    \/ CallOnResponse
    \/ CallOnFailure

SpecCalls == InitCalls /\ [][NextCalls]_vars

(***************************************************************************)
(* The dispatch on a level: dyn_event!, dyn_span! and make_span's match,   *)
(* called with every level.                                                *)
(***************************************************************************)
EventFields ==
    {[message |-> "request"],
     [request_id |-> <<"u", "u", "i", "d">>, message |-> "processing request"],
     [request_id |-> <<"u", "u", "i", "d">>]}

SpanNames == {"span message", "processing"}

SpanFields == {[none |-> TRUE], [operation |-> <<"o", "p">>]}

(* A call of a dispatch macro: its level argument and the rest. *)
DispatchCalled(op, lvl, name, fields) ==
    [op |-> op, status |-> 0, class |-> ErrorClass, before |-> None,
     propagator |-> propagator, level |-> lvl, name |-> name, fields |-> fields]

InitDispatch ==
    /\ propagator = TraceContextPropagator
    /\ creator = NewSpanCreator
    /\ pc = "dispatch"
    /\ request = None
    /\ response = None
    /\ span = None
    /\ call = NoCall
    /\ handlers = NewHandlers
    /\ events = << >>
    /\ AsideIdle

(* AxumOtelSpanCreator::level *)
ConfigureCreator ==
    /\ pc = "dispatch"
    /\ \E lvl \in Levels : creator' = set_level(creator, lvl)
    /\ UNCHANGED <<propagator, pc, request, response, span, call, handlers, events,
                   aside>>

DispatchMakeSpan ==
    /\ pc = "dispatch"
    /\ \E req \in DirectRequests, generated \in GeneratedTraceIds :
          /\ request' = Some(req)
          /\ span' = Some(make_span(creator, propagator, req, generated))
    /\ call' = DispatchCalled("make_span", creator.level, "request", << >>)
    /\ events' = << >>
    /\ UNCHANGED <<propagator, creator, pc, response, handlers, aside>>

DispatchEvent ==
    /\ pc = "dispatch"
    /\ \E lvl \in Levels, fields \in EventFields :
          /\ events' = dyn_event(lvl, fields)
          /\ call' = DispatchCalled("dyn_event", lvl, "", fields)
    /\ UNCHANGED <<propagator, creator, pc, request, response, span, handlers, aside>>

(* dyn_span!: the one span it returns is the current span. *)
DispatchSpan ==
    /\ pc = "dispatch"
    /\ \E lvl \in Levels, name \in SpanNames, fields \in SpanFields :
          /\ span' = dyn_span(lvl, name, fields)
          /\ call' = DispatchCalled("dyn_span", lvl, name, fields)
    /\ request' = None
    /\ events' = << >>
    /\ UNCHANGED <<propagator, creator, pc, response, handlers, aside>>

NextDispatch ==
    \/ ConfigureCreator
    \/ DispatchMakeSpan
    \/ DispatchEvent
    \/ DispatchSpan

SpecDispatch == InitDispatch /\ [][NextDispatch]_vars

(***************************************************************************)
(* The callers of trace/http.rs: a service that extracts the context of an *)
(* inbound request, or builds one around a span context, and injects it    *)
(* into the messages it sends; and make_span run on the same headers.      *)
(***************************************************************************)
HexBytes == {<<HexChars[i], HexChars[j]>> : i \in 1..16, j \in 1..16}

OtherTraceId == <<"a", "b">> \o Rep("0", TraceIdDigits - 2)

OtherSpanId == <<"c", "d">> \o Rep("0", SpanIdDigits - 2)

(* Every version byte, with well-formed ids, a few flags and what may     *)
(* follow the flags.                                                      *)
VersionTraceparents ==
    {TraceparentOf(v, SampleTraceId, SampleSpanId, f) \o tail :
        v \in HexBytes,
        f \in {<<"0", "0">>, <<"0", "1">>, <<"0", "2">>, <<"0", "3">>, <<"f", "f">>},
        tail \in {<< >>, <<"-">>, <<"-", "x">>}}

(* Every flags byte, at version 00. *)
FlagsTraceparents ==
    {TraceparentOf(<<"0", "0">>, tid, sid, f) :
        tid \in {SampleTraceId, OtherTraceId}, sid \in {SampleSpanId, OtherSpanId},
        f \in HexBytes}

TraceIdSegments ==
    {SampleTraceId,
     Rep("0", TraceIdDigits),
     <<"a", "b", "c">>,
     SubSeq(SampleTraceId, 1, TraceIdDigits - 1),
     SampleTraceId \o <<"0">>,
     <<"+">> \o SubSeq(SampleTraceId, 1, TraceIdDigits - 1),
     <<"q", "w">> \o Rep("0", TraceIdDigits - 2),
     <<"A", "B">> \o Rep("0", TraceIdDigits - 2),
     << >>}

SpanIdSegments ==
    {SampleSpanId,
     Rep("0", SpanIdDigits),
     <<"d", "e", "f">>,
     SampleSpanId \o <<"0">>,
     <<"q", "w">> \o Rep("0", SpanIdDigits - 2),
     <<"C", "D">> \o Rep("0", SpanIdDigits - 2)}

FlagsSegments ==
    {<<"0", "1">>, <<"1">>, <<"0", "1", "0", "0">>, <<"0", "0", "1">>, <<"+", "1">>,
     <<"q", "w">>, <<"A", "1">>, << >>}

VersionSegments == {<<"0", "0">>, <<"0">>, <<"0", "0", "0", "0">>, <<"0", "1">>}

(* Segments of the wrong length or with characters that are not digits. *)
SegmentTraceparents ==
    {TraceparentOf(v, tid, sid, f) :
        v \in VersionSegments, tid \in TraceIdSegments, sid \in SpanIdSegments,
        f \in FlagsSegments}

(* The wrong number of segments, and text around the value. *)
OddTraceparents ==
    {InvalidTraceparent, << >>, OpaqueTraceparent,
     <<"0", "0">> \o <<"-">> \o SampleTraceId \o <<"-">> \o SampleSpanId,
     <<"0", "0">> \o <<"-">> \o SampleTraceId,
     TraceparentOf(<<"0", "0">>, SampleTraceId, SampleSpanId, <<"0", "1">>)
         \o <<"-", "0", "0">>,
     <<" ">> \o ValidTraceparent \o <<" ">>}

CodecTraceparents ==
    VersionTraceparents \cup FlagsTraceparents \cup SegmentTraceparents
        \cup OddTraceparents

TracestateValues ==
    {<<"k", "1", "=", "v", "1">>,
     <<"k", "1", "=", "v", "1", ",", "k", "2", "=", "v", "2">>,
     <<"k", "2", "=", "v", "2", ",", "k", "1", "=", "v", "1">>,
     <<"n", "o", "t", "a", "p", "a", "i", "r">>}

InboundHeaders ==
    {[n \in {TRACEPARENT_HEADER} |-> t] : t \in Opt(CodecTraceparents)}
        \cup {[n \in {TRACEPARENT_HEADER, TRACESTATE_HEADER} |->
                  IF n = TRACEPARENT_HEADER THEN Some(ValidTraceparent) ELSE Some(s)] :
              s \in TracestateValues}

(* A request that carries the headers and nothing else make_span reads. *)
CodecRequest(headers) ==
    [method |-> GET, matched_path |-> None, headers |-> headers, scheme |-> None,
     path_and_query |-> None, connect_info |-> None, version |-> HTTP_11]

(* Span contexts a service builds itself (SpanContext::new). *)
LocalTraceStates ==
    {TraceStateDefault} \cup
        {Unwrap(TraceStateFromStr(s)) :
            s \in {v \in TracestateValues : IsSome(TraceStateFromStr(v))}}

LocalSpanContexts ==
    {SpanContext(Unwrap(from_str_radix(tid, TraceIdDigits)),
                 Unwrap(from_str_radix(sid, SpanIdDigits)), flags, FALSE, ts) :
        tid \in {SampleTraceId, Rep("0", TraceIdDigits)},
        sid \in {SampleSpanId, Rep("0", SpanIdDigits)},
        flags \in {0, 1, 2, 255},
        ts \in LocalTraceStates}

(* The headers a message has before the context is injected. *)
OutboundHeaders ==
    {NoHeaders,
     [n \in {X_REQUEST_ID} |-> Some(<<"a">>)],
     [n \in {TRACEPARENT_HEADER, TRACESTATE_HEADER} |->
         IF n = TRACEPARENT_HEADER THEN Some(TraceparentOf(<<"0", "0">>, OtherTraceId,
                                                          OtherSpanId, <<"0", "0">>))
         ELSE Some(<<"o", "=", "p">>)]}

(* A call of trace/http.rs: as Called, with the call that made the        *)
(* context it was handed.                                                 *)
CodecCalled(op, before, origin) ==
    [op |-> op, status |-> 0, class |-> ErrorClass, before |-> before,
     propagator |-> propagator, origin |-> origin]

InitCodec ==
    /\ propagator = NoopPropagator
    /\ creator = NewSpanCreator
    /\ pc = "codec"
    /\ request = None
    /\ response = None
    /\ span = None
    /\ call = NoCall
    /\ handlers = NewHandlers
    /\ events = << >>
    /\ AsideIdle

(* extract_context_from_request on an inbound request *)
ExtractContext ==
    /\ pc = "codec"
    /\ pc' = "held"
    /\ \E headers \in InboundHeaders :
          /\ request' = Some(CodecRequest(headers))
          /\ context' = extract_context_from_request(propagator, CodecRequest(headers))
    /\ call' = CodecCalled("extract", None, NoCall)
    /\ span' = None
    /\ outbound' = NoHeaders
    /\ UNCHANGED <<propagator, creator, response, handlers, events, input, output,
                   subscriber, providers, guards>>

(* make_span on an inbound request with the same headers *)
CodecMakeSpan ==
    /\ pc = "codec"
    /\ pc' = "held"
    /\ \E headers \in InboundHeaders, generated \in GeneratedTraceIds :
          /\ request' = Some(CodecRequest(headers))
          /\ span' = Some(make_span(creator, propagator, CodecRequest(headers), generated))
    /\ call' = CodecCalled("make_span", None, NoCall)
    /\ context' = EmptySpanContext
    /\ outbound' = NoHeaders
    /\ UNCHANGED <<propagator, creator, response, handlers, events, input, output,
                   subscriber, providers, guards>>

(* Context::current().with_remote_span_context(SpanContext::new(..)), or  *)
(* Context::current() alone when the span context is the empty one.       *)
WithSpanContext ==
    /\ pc = "codec"
    /\ pc' = "held"
    /\ \E span_context \in LocalSpanContexts \cup {EmptySpanContext} :
          context' = span_context
    /\ call' = CodecCalled("with_remote_span_context", None, NoCall)
    /\ request' = None
    /\ span' = None
    /\ outbound' = NoHeaders
    /\ UNCHANGED <<propagator, creator, response, handlers, events, input, output,
                   subscriber, providers, guards>>

(* The call that made the context now held. *)
ContextOrigin ==
    IF call.op \in {"inject_request", "inject_response"} THEN call.origin ELSE call

InjectIntoRequest ==
    /\ pc = "held"
    /\ call.op \in {"extract", "with_remote_span_context",
                    "inject_request", "inject_response"}
    /\ \E headers \in OutboundHeaders :
          /\ outbound' = inject_context_into_request(propagator, context, headers)
          /\ call' = CodecCalled("inject_request", Some(headers), ContextOrigin)
    /\ UNCHANGED <<propagator, creator, pc, request, response, span, handlers, events,
                   context, input, output, subscriber, providers, guards>>

InjectIntoResponse ==
    /\ pc = "held"
    /\ call.op \in {"extract", "with_remote_span_context",
                    "inject_request", "inject_response"}
    /\ \E headers \in OutboundHeaders :
          /\ outbound' = inject_context_into_response(propagator, context, headers)
          /\ call' = CodecCalled("inject_response", Some(headers), ContextOrigin)
    /\ UNCHANGED <<propagator, creator, pc, request, response, span, handlers, events,
                   context, input, output, subscriber, providers, guards>>

(* The service is done with the message and takes the next one. *)
CodecDone ==
    /\ pc = "held"
    /\ pc' = "codec"
    /\ request' = None
    /\ span' = None
    /\ call' = NoCall
    /\ context' = EmptySpanContext
    /\ outbound' = NoHeaders
    /\ UNCHANGED <<propagator, creator, response, handlers, events, input, output,
                   subscriber, providers, guards>>

NextCodec ==
    \/ InstallPropagator
    \/ CodecDone
    \/ ExtractContext
    \/ CodecMakeSpan
    \/ WithSpanContext
    \/ InjectIntoRequest
    \/ InjectIntoResponse

SpecCodec == InitCodec /\ [][NextCodec]_vars

(***************************************************************************)
(* Several requests in flight: one task per request, each with the span    *)
(* the layer made for it; the steps of the tasks interleave.  The layer    *)
(* hands every callback the span of its own request.                       *)
(***************************************************************************)
NumTasks == 2

Tasks == 1..NumTasks

ConcRequests ==
    {CodecRequest([n \in HeaderNames |-> None]),
     [CodecRequest([n \in HeaderNames |->
                       CASE n = TRACEPARENT_HEADER -> Some(ValidTraceparent)
                         [] n = X_REQUEST_ID -> Some(<<"a">>)
                         [] OTHER -> None])
        EXCEPT !.method = POST, !.matched_path = Some(<<"/", "u">>)]}

ConcStatusCodes == {200, 503}

record_on_all(spans, task, sp) ==
    [j \in DOMAIN spans |-> IF j = task \/ IsSome(spans[j]) THEN Some(sp) ELSE spans[j]]

(* span.record(..) on the span of the callback's request: the other spans *)
(* of the registry are not touched.                                       *)
record_on(spans, task, sp) == [spans EXCEPT ![task] = Some(sp)]

(* A callback invocation by a task. *)
ConcCalled(op, task, status, class, before) ==
    [op |-> op, status |-> status, class |-> class, before |-> before,
     propagator |-> propagator, task |-> task]

InitConc ==
    /\ propagator = TraceContextPropagator
    /\ creator = NewSpanCreator
    /\ handlers = NewHandlers
    /\ pc = [i \in Tasks |-> "idle"]
    /\ request = [i \in Tasks |-> None]
    /\ response = [i \in Tasks |-> None]
    /\ span = [i \in Tasks |-> None]
    /\ call = NoCall
    /\ events = << >>
    /\ AsideIdle

ConcCreate(i) ==
    /\ pc[i] = "idle"
    /\ \E req \in ConcRequests, generated \in GeneratedTraceIds :
          /\ request' = [request EXCEPT ![i] = Some(req)]
          /\ span' = record_on(span, i, make_span(creator, propagator, req, generated))
    /\ pc' = [pc EXCEPT ![i] = "called"]
    /\ call' = ConcCalled("make_span", i, 0, ErrorClass, None)
    /\ events' = << >>
    /\ UNCHANGED <<propagator, creator, handlers, response, aside>>

ConcRespond(i) ==
    /\ pc[i] = "called"
    /\ \E status \in ConcStatusCodes, latency \in Latencies :
          /\ response' = [response EXCEPT ![i] = Some(status)]
          /\ span' = record_on(span, i, on_response(Unwrap(span[i]), status))
          /\ events' = on_response_events(handlers.on_response, status, latency)
          /\ call' = ConcCalled("on_response", i, status, ErrorClass, span[i])
          /\ pc' = [pc EXCEPT ![i] = IF is_server_error(status) THEN "failing" ELSE "done"]
    /\ UNCHANGED <<propagator, creator, handlers, request, aside>>

ConcFailResponse(i) ==
    /\ pc[i] = "failing"
    /\ span' = record_on(span, i,
                         on_failure(Unwrap(span[i]), StatusCodeClass(Unwrap(response[i]))))
    /\ \E latency \in Latencies :
          events' = on_failure_events(handlers.on_failure,
                                      StatusCodeClass(Unwrap(response[i])), latency)
    /\ call' = ConcCalled("on_failure", i, 0, StatusCodeClass(Unwrap(response[i])), span[i])
    /\ pc' = [pc EXCEPT ![i] = "done"]
    /\ UNCHANGED <<propagator, creator, handlers, request, response, aside>>

ConcFailService(i) ==
    /\ pc[i] = "called"
    /\ span' = record_on(span, i, on_failure(Unwrap(span[i]), ErrorClass))
    /\ \E latency \in Latencies :
          events' = on_failure_events(handlers.on_failure, ErrorClass, latency)
    /\ call' = ConcCalled("on_failure", i, 0, ErrorClass, span[i])
    /\ pc' = [pc EXCEPT ![i] = "done"]
    /\ UNCHANGED <<propagator, creator, handlers, request, response, aside>>

(* The task's span is closed and the task takes another request. *)
ConcClose(i) ==
    /\ pc[i] = "done"
    /\ pc' = [pc EXCEPT ![i] = "idle"]
    /\ request' = [request EXCEPT ![i] = None]
    /\ response' = [response EXCEPT ![i] = None]
    /\ span' = [span EXCEPT ![i] = None]
    /\ call' = ConcCalled("close", i, 0, ErrorClass, span[i])
    /\ events' = << >>
    /\ UNCHANGED <<propagator, creator, handlers, aside>>

NextConc ==
    \E i \in Tasks :
        \/ ConcCreate(i)
        \/ ConcRespond(i)
        \/ ConcFailResponse(i)
        \/ ConcFailService(i)
        \/ ConcClose(i)

SpecConc == InitConc /\ [][NextConc]_vars

(***************************************************************************)
(* logs/layer.rs: the deserializers of the logger's configuration          *)
(***************************************************************************)
Ok(value) == [ok |-> TRUE, value |-> value]

Err(error) == [ok |-> FALSE, error |-> error]

(* str::split_once: the text before and after the first occurrence. *)
SplitOnce(s, c) ==
    IF Find(s, c) = 0 THEN None
    ELSE Some(<<SubSeq(s, 1, Find(s, c) - 1), SubSeq(s, Find(s, c) + 1, Len(s))>>)

(* KeyValue::new(key, value) *)
KeyValue(key, value) == <<key, value>>

ParseAttributeUntrimmed(segment) ==
    LET s == Trim(segment)
        parts == SplitOnce(s, "=")
    IN  IF ~IsSome(parts)
        THEN Err(<<"I", "n", "v", "a", "l", "i", "d", " ", "a", "t", "t", "r", "i", "b",
                   "u", "t", "e", ":", " ", "'">> \o s \o <<"'">>)
        ELSE LET key == Unwrap(parts)[1]
                 value == Unwrap(parts)[2]
             IN  IF key = << >> \/ value = << >>
                 THEN Err(<<"E", "m", "p", "t", "y", " ", "k", "e", "y", " ", "o", "r", " ",
                            "v", "a", "l", "u", "e", ":", " ", "'">> \o s \o <<"'">>)
                 ELSE Ok(KeyValue(key, value))

(* The closure deserialize_attributes maps over the segments. *)
ParseAttribute(segment) ==
    LET s == Trim(segment)
        parts == SplitOnce(s, "=")
    IN  IF ~IsSome(parts)
        THEN Err(<<"I", "n", "v", "a", "l", "i", "d", " ", "a", "t", "t", "r", "i", "b",
                   "u", "t", "e", ":", " ", "'">> \o s \o <<"'">>)
        ELSE LET key == Trim(Unwrap(parts)[1])
                 value == Trim(Unwrap(parts)[2])
             IN  IF key = << >> \/ value = << >>
                 THEN Err(<<"E", "m", "p", "t", "y", " ", "k", "e", "y", " ", "o", "r", " ",
                            "v", "a", "l", "u", "e", ":", " ", "'">> \o s \o <<"'">>)
                 ELSE Ok(KeyValue(key, value))

CollectPartial(results) ==
    LET IsOk(r) == r.ok
        oks == SelectSeq(results, IsOk)
    IN  Ok([i \in 1..Len(oks) |-> oks[i].value])

(* Iterator::collect into Result<Vec<_>, _>: the first Err, else every value. *)
Collect(results) ==
    IF \E i \in 1..Len(results) : ~results[i].ok
    THEN results[CHOOSE i \in 1..Len(results) :
                     ~results[i].ok /\ \A j \in 1..(i - 1) : results[j].ok]
    ELSE Ok([i \in 1..Len(results) |-> results[i].value])

deserialize_attributes_untrimmed(s) ==
    IF s = << >> THEN Ok(<< >>)
    ELSE LET NotBlank(segment) == Trim(segment) # << >>
             segments == SelectSeq(Split(s, ","), NotBlank)
         IN  Collect([i \in 1..Len(segments) |-> ParseAttributeUntrimmed(segments[i])])

deserialize_attributes(s) ==
    IF s = << >> THEN Ok(<< >>)
    ELSE LET NotBlank(segment) == Trim(segment) # << >>
             segments == SelectSeq(Split(s, ","), NotBlank)
         IN  Collect([i \in 1..Len(segments) |-> ParseAttribute(segments[i])])

(***************************************************************************)
(* Configuration texts: segments joined with ','.  A segment is blank, a   *)
(* key and a value around '=' with or without spaces, or something else.   *)
(***************************************************************************)
MaxSegments == 3

AttributeKeys == {<<"k">>, <<"k", "e", "y", "1">>}

AttributeValues == {<<"v">>, <<"a", " ", "b">>, <<"x", "=", "y">>}

Paddings == {<< >>, <<" ">>, <<" ", "\t">>}

BlankSegments == {[kind |-> "blank", text |-> pad] : pad \in Paddings}

PairSegments ==
    {[kind |-> "pair", key |-> key, value |-> value,
      text |-> pad \o key \o pad \o <<"=">> \o pad \o value \o pad] :
        key \in AttributeKeys, value \in AttributeValues, pad \in Paddings}

OtherSegments ==
    {[kind |-> "other", text |-> text] :
        text \in {<<"k", "e", "y", "1">>, <<"k", "e", "y", "1", "=">>,
                  <<"=", "v">>, <<" ", "=", " ">>}}

AttributeSegments == BlankSegments \cup PairSegments \cup OtherSegments

AttributeInputs ==
    UNION {[1..n -> AttributeSegments] : n \in 1..MaxSegments}

(* The text that is deserialized for a list of segments. *)
TextOf(segments) == Join([i \in 1..Len(segments) |-> segments[i].text], <<",">>)

NoInput == << >>

InitConfig ==
    /\ propagator = NoopPropagator
    /\ creator = NewSpanCreator
    /\ pc = "config"
    /\ request = None
    /\ response = None
    /\ span = None
    /\ call = NoCall
    /\ handlers = NewHandlers
    /\ events = << >>
    /\ AsideIdle

(* A configuration source holds the attributes text. *)
ReadAttributes ==
    /\ pc = "config"
    /\ \E segments \in AttributeInputs :
          input' = [segments |-> segments, text |-> TextOf(segments)]
    /\ output' = None
    /\ pc' = "read"
    /\ UNCHANGED <<propagator, creator, request, response, span, call, handlers,
                   events, context, outbound, subscriber, providers, guards>>

DeserializeAttributes ==
    /\ pc = "read"
    /\ output' = Some(deserialize_attributes(input.text))
    /\ pc' = "parsed"
    /\ UNCHANGED <<propagator, creator, request, response, span, call, handlers,
                   events, context, outbound, input, subscriber, providers, guards>>

(***************************************************************************)
(* logs/logger.rs: the span events of the logger's configuration           *)
(***************************************************************************)
(* tracing_subscriber's FmtSpan: a set of bits. *)
FmtSpan ==
    [NEW |-> {0}, ENTER |-> {1}, EXIT |-> {2}, CLOSE |-> {3}, NONE |-> {},
     ACTIVE |-> {1, 2}, FULL |-> {0, 1, 2, 3}]

(* FmtSpan's BitOr *)
BitOr(a, b) == a \cup b

InvalidSpanEvents(part) ==
    Err(<<"I", "n", "v", "a", "l", "i", "d", " ", "s", "p", "a", "n", " ", "e", "v", "e",
          "n", "t", "s", ":", " ", "'">>
        \o part \o
        <<"'", ".", " ", "V", "a", "l", "i", "d", " ", "o", "p", "t", "i", "o", "n", "s",
          ":", " ", "F", "M", "T", ":", ":", "N", "E", "W", ",", " ", "F", "M", "T", ":",
          ":", "E", "N", "T", "E", "R", ",", " ", "F", "M", "T", ":", ":", "E", "X", "I",
          "T", ",", " ", "F", "M", "T", ":", ":", "C", "L", "O", "S", "E", ",", " ", "F",
          "M", "T", ":", ":", "N", "O", "N", "E", ",", " ", "F", "M", "T", ":", ":", "A",
          "C", "T", "I", "V", "E", ",", " ", "F", "M", "T", ":", ":", "F", "U", "L", "L">>)

(* The loop of deserialize_span_events over the trimmed parts. *)
RECURSIVE SpanEventsFrom(_, _)
SpanEventsFrom(parts, result) ==
    IF parts = << >> THEN Ok(result)
    ELSE LET part == Trim(Head(parts)) IN
        IF part \in {<<"F", "M", "T", ":", ":", "N", "E", "W">>,
                     <<"F", "m", "t", "S", "p", "a", "n", ":", ":", "N", "E", "W">>}
        THEN SpanEventsFrom(Tail(parts), BitOr(result, FmtSpan.NEW))
        ELSE IF part \in {<<"F", "M", "T", ":", ":", "E", "N", "T", "E", "R">>,
                     <<"F", "m", "t", "S", "p", "a", "n", ":", ":", "E", "N", "T", "E",
                       "R">>}
        THEN SpanEventsFrom(Tail(parts), BitOr(result, FmtSpan.ENTER))
        ELSE IF part \in {<<"F", "M", "T", ":", ":", "E", "X", "I", "T">>,
                     <<"F", "m", "t", "S", "p", "a", "n", ":", ":", "E", "X", "I", "T">>}
        THEN SpanEventsFrom(Tail(parts), BitOr(result, FmtSpan.EXIT))
        ELSE IF part \in {<<"F", "M", "T", ":", ":", "C", "L", "O", "S", "E">>,
                     <<"F", "m", "t", "S", "p", "a", "n", ":", ":", "C", "L", "O", "S",
                       "E">>}
        THEN SpanEventsFrom(Tail(parts), BitOr(result, FmtSpan.CLOSE))
        ELSE IF part \in {<<"F", "M", "T", ":", ":", "A", "C", "T", "I", "V", "E">>,
                     <<"F", "m", "t", "S", "p", "a", "n", ":", ":", "A", "C", "T", "I",
                       "V", "E">>}
        THEN SpanEventsFrom(Tail(parts), BitOr(result, FmtSpan.ACTIVE))
        ELSE IF part \in {<<"F", "M", "T", ":", ":", "F", "U", "L", "L">>,
                     <<"F", "m", "t", "S", "p", "a", "n", ":", ":", "F", "U", "L", "L">>}
        THEN Ok(FmtSpan.FULL)
        ELSE InvalidSpanEvents(part)

deserialize_span_events(text) ==
    LET s == Trim(text)
    IN  IF s = << >> THEN Ok(FmtSpan.NONE)
        ELSE SpanEventsFrom(Split(s, "|"), FmtSpan.NONE)

(***************************************************************************)
(* Span-event texts: parts joined with '|', each with or without spaces    *)
(* around it.  A part is a documented option, its FmtSpan:: spelling,      *)
(* blank, or something else.                                               *)
(***************************************************************************)
MaxParts == 3

SpanEventNames == {"NEW", "ENTER", "EXIT", "CLOSE", "NONE", "ACTIVE", "FULL"}

NameText(name) ==
    CASE name = "NEW" -> <<"N", "E", "W">>
      [] name = "ENTER" -> <<"E", "N", "T", "E", "R">>
      [] name = "EXIT" -> <<"E", "X", "I", "T">>
      [] name = "CLOSE" -> <<"C", "L", "O", "S", "E">>
      [] name = "NONE" -> <<"N", "O", "N", "E">>
      [] name = "ACTIVE" -> <<"A", "C", "T", "I", "V", "E">>
      [] name = "FULL" -> <<"F", "U", "L", "L">>

SpanEventParts ==
    {[kind |-> "option", name |-> name,
      text |-> <<"F", "M", "T", ":", ":">> \o NameText(name)] : name \in SpanEventNames}
    \cup {[kind |-> "alias", name |-> name,
           text |-> <<"F", "m", "t", "S", "p", "a", "n", ":", ":">> \o NameText(name)] :
              name \in SpanEventNames}
    \cup {[kind |-> "other", name |-> "", text |-> <<"I", "N", "V", "A", "L", "I", "D">>],
          [kind |-> "other", name |-> "", text |-> <<"f", "m", "t", ":", ":", "n", "e", "w">>],
          [kind |-> "blank", name |-> "", text |-> << >>]}

SpanEventInputs == UNION {[1..n -> SpanEventParts] : n \in 1..MaxParts}

SpanEventsText(parts, pad) ==
    Join([i \in 1..Len(parts) |-> pad \o parts[i].text \o pad], <<"|">>)

ReadSpanEvents ==
    /\ pc = "config"
    /\ \E parts \in SpanEventInputs, pad \in {<< >>, <<" ">>} :
          input' = [parts |-> parts, text |-> SpanEventsText(parts, pad)]
    /\ output' = None
    /\ pc' = "read_events"
    /\ UNCHANGED <<propagator, creator, request, response, span, call, handlers,
                   events, context, outbound, subscriber, providers, guards>>

DeserializeSpanEvents ==
    /\ pc = "read_events"
    /\ output' = Some(deserialize_span_events(input.text))
    /\ pc' = "parsed_events"
    /\ UNCHANGED <<propagator, creator, request, response, span, call, handlers,
                   events, context, outbound, input, subscriber, providers, guards>>

(***************************************************************************)
(* logs/logger.rs: Logger, its defaults, and Logger::from_env              *)
(***************************************************************************)
UpperChars ==
    <<"A", "B", "C", "D", "E", "F", "G", "H", "I", "J", "K", "L", "M", "N", "O", "P",
      "Q", "R", "S", "T", "U", "V", "W", "X", "Y", "Z">>

LowerChars ==
    <<"a", "b", "c", "d", "e", "f", "g", "h", "i", "j", "k", "l", "m", "n", "o", "p",
      "q", "r", "s", "t", "u", "v", "w", "x", "y", "z">>

(* str::to_lowercase on ASCII text. *)
ToLowercase(s) ==
    [i \in 1..Len(s) |->
        IF \E k \in 1..Len(UpperChars) : UpperChars[k] = s[i]
        THEN LowerChars[CHOOSE k \in 1..Len(UpperChars) : UpperChars[k] = s[i]]
        ELSE s[i]]

(* LogFormat::default(): #[default] Compact *)
LogFormatDefault == "Compact"

deserialize_log_format(s) ==
    LET v == Trim(ToLowercase(s))
    IN  IF v = <<"c", "o", "m", "p", "a", "c", "t">> THEN Ok("Compact")
        ELSE IF v = <<"p", "r", "e", "t", "t", "y">> THEN Ok("Pretty")
        ELSE IF v = <<"j", "s", "o", "n">> THEN Ok("Json")
        ELSE Err(<<"I", "n", "v", "a", "l", "i", "d", " ", "l", "o", "g", " ", "f", "o", "r",
              "m", "a", "t", ":", " ", "'">> \o s \o <<"'">>)

(* tracing's Level::from_str, called by deserialize_level: a number 1..5  *)
(* or a level name in either case.                                         *)
deserialize_level(s) ==
    LET v == ToLowercase(s)
    IN  IF s = <<"1">> \/ v = <<"e", "r", "r", "o", "r">> THEN Ok("ERROR")
        ELSE IF s = <<"2">> \/ v = <<"w", "a", "r", "n">> THEN Ok("WARN")
        ELSE IF s = <<"3">> \/ v = <<"i", "n", "f", "o">> THEN Ok("INFO")
        ELSE IF s = <<"4">> \/ v = <<"d", "e", "b", "u", "g">> THEN Ok("DEBUG")
        ELSE IF s = <<"5">> \/ v = <<"t", "r", "a", "c", "e">> THEN Ok("TRACE")
        ELSE Err("ParseLevelError")

(* envy: a bool field is parsed with str::parse::<bool>. *)
ParseBool(s) ==
    IF s = <<"t", "r", "u", "e">> THEN Ok(TRUE)
    ELSE IF s = <<"f", "a", "l", "s", "e">> THEN Ok(FALSE)
    ELSE Err("ParseBoolError")

IsDecDigit(c) == \E k \in 1..Len(DecDigits) : DecDigits[k] = c

DecVal(c) == (CHOOSE k \in 1..Len(DecDigits) : DecDigits[k] = c) - 1

RECURSIVE DecNumber(_)
DecNumber(s) == IF s = << >> THEN 0 ELSE 10 * DecNumber(SubSeq(s, 1, Len(s) - 1)) + DecVal(s[Len(s)])

(* envy: a u64 field is parsed with str::parse::<u64>, here for texts of up *)
(* to four characters: an optional '+' and decimal digits.                  *)
ParseU64(s) ==
    LET body == IF Len(s) > 1 /\ Head(s) = "+" THEN Tail(s) ELSE s
    IN  IF body = << >> \/ \E i \in 1..Len(body) : ~IsDecDigit(body[i])
        THEN Err("ParseIntError")
        ELSE Ok(DecNumber(body))

(* envy: an f64 field is parsed with str::parse::<f64>, here for texts of   *)
(* the shapes d and d.d; the value is held in tenths.                       *)
ParseF64(s) ==
    IF Len(s) = 1 /\ IsDecDigit(s[1]) THEN Ok(10 * DecVal(s[1]))
    ELSE IF Len(s) = 3 /\ IsDecDigit(s[1]) /\ s[2] = "." /\ IsDecDigit(s[3])
    THEN Ok(10 * DecVal(s[1]) + DecVal(s[3]))
    ELSE Err("ParseFloatError")

(* env!("CARGO_CRATE_NAME") *)
default_service_name ==
    <<"t", "r", "a", "c", "i", "n", "g", "_", "o", "t", "e", "l", "_", "e", "x", "t",
      "r", "a">>

default_level == "INFO"

(* 1.0, in tenths *)
default_sample_ratio == 10

default_metrics_interval_secs == 30

default_span_events == BitOr(FmtSpan.NEW, FmtSpan.CLOSE)

(* impl Default for Logger *)
LoggerDefault ==
    [service_name |-> default_service_name,
     format |-> LogFormatDefault,
     span_events |-> default_span_events,
     ansi |-> TRUE,
     level |-> default_level,
     sample_ratio |-> default_sample_ratio,
     metrics_interval_secs |-> 30,
     attributes |-> << >>]

(* The fields of Logger; the variable of a field is the prefix ("LOG_" when *)
(* none is given) and the name in upper case.                               *)
LoggerFields == DOMAIN LoggerDefault

(* The derived Deserialize of Logger on the variables that are set: a      *)
(* field whose variable is not set takes its #[serde(default)].            *)
DeserializeLogger(env) ==
    [service_name |->
        IF IsSome(env.service_name) THEN Ok(Unwrap(env.service_name))
        ELSE Ok(default_service_name),
     format |->
        IF IsSome(env.format) THEN deserialize_log_format(Unwrap(env.format))
        ELSE Ok(LogFormatDefault),
     span_events |->
        IF IsSome(env.span_events) THEN deserialize_span_events(Unwrap(env.span_events))
        ELSE Ok(default_span_events),
     ansi |->
        IF IsSome(env.ansi) THEN ParseBool(Unwrap(env.ansi))
        ELSE Ok(FALSE),
     level |->
        IF IsSome(env.level) THEN deserialize_level(Unwrap(env.level))
        ELSE Ok(default_level),
     sample_ratio |->
        IF IsSome(env.sample_ratio) THEN ParseF64(Unwrap(env.sample_ratio))
        ELSE Ok(default_sample_ratio),
     metrics_interval_secs |->
        IF IsSome(env.metrics_interval_secs)
        THEN ParseU64(Unwrap(env.metrics_interval_secs))
        ELSE Ok(default_metrics_interval_secs),
     attributes |->
        IF IsSome(env.attributes) THEN deserialize_attributes(Unwrap(env.attributes))
        ELSE Ok(<< >>)]

(* init_logger_from_env: any field's error is returned under the context.  *)
init_logger_from_env(env) ==
    LET fields == DeserializeLogger(env)
    IN  IF \E f \in LoggerFields : ~fields[f].ok
        THEN Err(<<"F", "a", "i", "l", "e", "d", " ", "t", "o", " ", "d", "e", "s", "e",
                   "r", "i", "a", "l", "i", "z", "e", " ", "e", "n", "v", "i", "r", "o",
                   "n", "m", "e", "n", "t", " ", "v", "a", "r", "i", "a", "b", "l", "e",
                   "s">>)
        ELSE Ok([f \in LoggerFields |-> fields[f].value])

(***************************************************************************)
(* Environments: each variable is not set (None) or holds one of a few     *)
(* texts.                                                                  *)
(***************************************************************************)
EnvValues ==
    [service_name |-> {<<"s", "v", "c">>},
     format |-> {<<"j", "s", "o", "n">>, <<" ", "P", "r", "e", "t", "t", "y">>,
                 <<"x", "m", "l">>},
     span_events |-> {<<"F", "M", "T", ":", ":", "F", "U", "L", "L">>, <<"I", "N", "V">>},
     ansi |-> {<<"t", "r", "u", "e">>, <<"f", "a", "l", "s", "e">>, <<"y", "e", "s">>},
     level |-> {<<"d", "e", "b", "u", "g">>, <<"W", "A", "R", "N">>, <<"5">>,
                <<"l", "o", "u", "d">>},
     sample_ratio |-> {<<"0", ".", "5">>, <<"a", "b", "c">>},
     metrics_interval_secs |-> {<<"6", "0">>, <<"-", "1">>},
     attributes |-> {<<"k", "=", "v">>, <<"k">>}]

Environments ==
    [service_name : {None} \cup {Some(v) : v \in EnvValues.service_name},
     format : {None} \cup {Some(v) : v \in EnvValues.format},
     span_events : {None} \cup {Some(v) : v \in EnvValues.span_events},
     ansi : {None} \cup {Some(v) : v \in EnvValues.ansi},
     level : {None} \cup {Some(v) : v \in EnvValues.level},
     sample_ratio : {None} \cup {Some(v) : v \in EnvValues.sample_ratio},
     metrics_interval_secs : {None} \cup {Some(v) : v \in EnvValues.metrics_interval_secs},
     attributes : {None} \cup {Some(v) : v \in EnvValues.attributes}]

ReadEnv ==
    /\ pc = "config"
    /\ \E env \in Environments : input' = [env |-> env]
    /\ output' = None
    /\ pc' = "read_env"
    /\ UNCHANGED <<propagator, creator, request, response, span, call, handlers,
                   events, context, outbound, subscriber, providers, guards>>

LoggerFromEnv ==
    /\ pc = "read_env"
    /\ output' = Some(init_logger_from_env(input.env))
    /\ pc' = "parsed_env"
    /\ UNCHANGED <<propagator, creator, request, response, span, call, handlers,
                   events, context, outbound, input, subscriber, providers, guards>>

(* The configuration is built and the next source is read. *)
ConfigDone ==
    /\ pc \in {"parsed", "parsed_events", "parsed_env"}
    /\ pc' = "config"
    /\ input' = NoInput
    /\ output' = None
    /\ UNCHANGED <<propagator, creator, request, response, span, call, handlers,
                   events, context, outbound, subscriber, providers, guards>>

NextConfig ==
    \/ ReadAttributes
    \/ DeserializeAttributes
    \/ ReadSpanEvents
    \/ DeserializeSpanEvents
    \/ ReadEnv
    \/ LoggerFromEnv
    \/ ConfigDone

SpecConfig == InitConfig /\ [][NextConfig]_vars

(***************************************************************************)
(* guard.rs and logger.rs: Logger::init and the ProviderGuard it returns   *)
(***************************************************************************)
MaxInits == 2

MaxGuards == 3

(* A provider built by init_tracer_provider or init_meter_provider: how    *)
(* often shutdown() was invoked on it, and the SDK's own is_shutdown flag.  *)
NewProvider(kind) == [kind |-> kind, shutdowns |-> 0, is_shutdown |-> FALSE]

(* SdkTracerProvider::shutdown / SdkMeterProvider::shutdown on provider p:  *)
(* an error when it is already shut down or when flushing fails.            *)
provider_shutdown(provs, p, fails) ==
    [providers |-> [provs EXCEPT ![p].shutdowns = @ + 1, ![p].is_shutdown = TRUE],
     result |-> IF provs[p].is_shutdown THEN Err("AlreadyShutdown")
                ELSE IF fails THEN Err("InternalFailure")
                ELSE Ok(<< >>)]

(* ProviderGuard::new *)
NewGuard(tracer_provider, meter_provider) ==
    [tracer_provider |-> tracer_provider, meter_provider |-> meter_provider]

(* Drop for ProviderGuard: both providers are taken and shut down, errors  *)
(* are printed.                                                            *)
drop(provs, self, failing) ==
    LET after_tracer ==
            IF IsSome(self.tracer_provider)
            THEN provider_shutdown(provs, Unwrap(self.tracer_provider),
                                   "tracer" \in failing).providers
            ELSE provs
    IN  IF IsSome(self.meter_provider)
        THEN provider_shutdown(after_tracer, Unwrap(self.meter_provider),
                               "meter" \in failing).providers
        ELSE after_tracer

shutdown_without_drop(provs, self, failing) ==
    LET tracer == IF IsSome(self.tracer_provider)
                  THEN provider_shutdown(provs, Unwrap(self.tracer_provider),
                                         "tracer" \in failing)
                  ELSE [providers |-> provs, result |-> Ok(<< >>)]
    IN  IF ~tracer.result.ok
        THEN tracer
        ELSE IF IsSome(self.meter_provider)
        THEN provider_shutdown(tracer.providers, Unwrap(self.meter_provider),
                               "meter" \in failing)
        ELSE [providers |-> tracer.providers, result |-> Ok(<< >>)]

(* ProviderGuard::shutdown(mut self): `?` returns the tracer provider's    *)
(* error at once, and self, with what was not taken, is dropped on return.  *)
shutdown(provs, self, failing) ==
    LET tracer == IF IsSome(self.tracer_provider)
                  THEN provider_shutdown(provs, Unwrap(self.tracer_provider),
                                         "tracer" \in failing)
                  ELSE [providers |-> provs, result |-> Ok(<< >>)]
    IN  IF ~tracer.result.ok
        THEN [providers |-> drop(tracer.providers,
                                 NewGuard(None, self.meter_provider), failing),
              result |-> tracer.result]
        ELSE IF IsSome(self.meter_provider)
        THEN provider_shutdown(tracer.providers, Unwrap(self.meter_provider),
                               "meter" \in failing)
        ELSE [providers |-> tracer.providers, result |-> Ok(<< >>)]

(* What a call that unwinds leaves instead of a value. *)
Panic == [panicked |-> TRUE]

FailedToInitializeTracing ==
    Err(<<"F", "a", "i", "l", "e", "d", " ", "t", "o", " ", "i", "n", "i", "t", "i", "a",
          "l", "i", "z", "e", " ", "t", "r", "a", "c", "i", "n", "g">>)

(* init_tracing_from_logger over setup_tracing: the propagator is set      *)
(* first, each provider is built unless its exporter cannot be built, and  *)
(* SubscriberInitExt::init panics when a global subscriber is already set.  *)
init_tracing_from_logger(installed, provs, exporters) ==
    IF ~exporters.tracer
    THEN [providers |-> provs, subscriber |-> installed, guard |-> None,
          result |-> FailedToInitializeTracing]
    ELSE IF ~exporters.meter
    THEN [providers |-> Append(provs, NewProvider("tracer")), subscriber |-> installed,
          guard |-> None, result |-> FailedToInitializeTracing]
    ELSE LET built == provs \o <<NewProvider("tracer"), NewProvider("meter")>>
         IN  IF installed
             THEN [providers |-> built, subscriber |-> installed, guard |-> None,
                   result |-> Panic]
             ELSE [providers |-> built, subscriber |-> TRUE,
                   guard |-> Some(NewGuard(Some(Len(provs) + 1), Some(Len(provs) + 2))),
                   result |-> Ok(Len(guards) + 1)]

InitProcess ==
    /\ propagator = NoopPropagator
    /\ creator = NewSpanCreator
    /\ pc = "running"
    /\ request = None
    /\ response = None
    /\ span = None
    /\ call = NoCall
    /\ handlers = NewHandlers
    /\ events = << >>
    /\ AsideIdle

(* Logger::init *)
LoggerInit ==
    /\ pc = "running"
    /\ Len(providers) + 2 <= 2 * MaxInits
    /\ \E exporters \in [tracer : BOOLEAN, meter : BOOLEAN] :
          LET r == init_tracing_from_logger(subscriber, providers, exporters)
          IN  /\ providers' = r.providers
              /\ subscriber' = r.subscriber
              /\ guards' = IF IsSome(r.guard)
                           THEN Append(guards, [self |-> Unwrap(r.guard), alive |-> TRUE])
                           ELSE guards
              /\ output' = Some(r.result)
              /\ pc' = IF r.result = Panic THEN "panicked" ELSE "running"
    /\ propagator' = TraceContextPropagator
    /\ call' = [op |-> "init", subscriber |-> subscriber]
    /\ UNCHANGED <<creator, request, response, span, handlers, events, context,
                   outbound, input>>

(* #[derive(Clone)]: the clone holds the same providers. *)
GuardClone(g) ==
    /\ pc = "running"
    /\ guards[g].alive
    /\ Len(guards) < MaxGuards
    /\ guards' = Append(guards, guards[g])
    /\ call' = [op |-> "clone", self |-> guards[g].self]
    /\ UNCHANGED <<propagator, creator, pc, request, response, span, handlers, events,
                   context, outbound, input, output, subscriber, providers>>

(* guard.shutdown() *)
GuardShutdown(g) ==
    /\ pc = "running"
    /\ guards[g].alive
    /\ \E failing \in SUBSET {"tracer", "meter"} :
          LET r == shutdown(providers, guards[g].self, failing)
          IN  /\ providers' = r.providers
              /\ output' = Some(r.result)
              /\ call' = [op |-> "shutdown", self |-> guards[g].self,
                          failing |-> failing]
    /\ guards' = [guards EXCEPT ![g].alive = FALSE]
    /\ UNCHANGED <<propagator, creator, pc, request, response, span, handlers, events,
                   context, outbound, input, subscriber>>

(* The guard goes out of scope, also while a panic unwinds. *)
GuardDrop(g) ==
    /\ guards[g].alive
    /\ \E failing \in SUBSET {"tracer", "meter"} :
          /\ providers' = drop(providers, guards[g].self, failing)
          /\ call' = [op |-> "drop", self |-> guards[g].self, failing |-> failing]
    /\ guards' = [guards EXCEPT ![g].alive = FALSE]
    /\ output' = None
    /\ UNCHANGED <<propagator, creator, pc, request, response, span, handlers, events,
                   context, outbound, input, subscriber>>

NextProcess ==
    \/ LoggerInit
    \/ \E g \in 1..Len(guards) : GuardClone(g)
    \/ \E g \in 1..Len(guards) : GuardShutdown(g)
    \/ \E g \in 1..Len(guards) : GuardDrop(g)

SpecProcess == InitProcess /\ [][NextProcess]_vars

(***************************************************************************)
(* Properties                                                              *)
(***************************************************************************)
Unset == None

StatusOf(sp) == sp.otel_status_code

(* The span the last handler call was given, and the span it left. *)
Before == Unwrap(call.before)

After == Unwrap(span)

(* The number a decimal text denotes. *)
RECURSIVE DecimalValue(_)
DecimalValue(text) ==
    IF text = << >> THEN 0
    ELSE 10 * DecimalValue(SubSeq(text, 1, Len(text) - 1))
         + (CHOOSE d \in 0..9 : DecDigits[d + 1] = text[Len(text)])

OnFailureCalled == call.op = "on_failure"

OnResponseCalled == call.op = "on_response"

(* C1, as stated: on_failure with StatusCode(s) leaves the status ERROR     *)
(* exactly when s >= 500 and otherwise leaves it as it was; on_failure with *)
(* an Error classification leaves the status as it was.                     *)
C1_ErrorIffAtLeast500 ==
    OnFailureCalled =>
        StatusOf(After) =
            IF call.class.kind = "StatusCode" /\ call.class.code >= 500
            THEN Some(ERROR)
            ELSE StatusOf(Before)

(* C1, amended: on_failure with StatusCode(s) writes ERROR exactly when     *)
(* 500 <= s <= 599; for every other status code and for an Error            *)
(* classification the status, like every other field, is as it was.         *)
C1_ErrorIffServerError ==
    OnFailureCalled =>
        After = IF /\ call.class.kind = "StatusCode"
                   /\ call.class.code >= 500
                   /\ call.class.code <= 599
                THEN [Before EXCEPT !.otel_status_code = Some(ERROR)]
                ELSE Before

C1_Witness ==
    /\ OnFailureCalled
    /\ call.class = StatusCodeClass(503)
    /\ StatusOf(Before) = Unset
    /\ StatusOf(After) = Some(ERROR)

C3_StatusWrittenOnce ==
    [][(IsSome(span) /\ StatusOf(Unwrap(span)) # Unset /\ IsSome(span'))
          => StatusOf(Unwrap(span')) = StatusOf(Unwrap(span))]_vars

IsServerErrorResponse ==
    IsSome(response) /\ Unwrap(response) >= 500 /\ Unwrap(response) <= 599

(* C4: when the response was a 5xx and on_response and on_failure have both *)
(* returned, the span's status is ERROR.                                    *)
C4_ServerErrorEndsError ==
    (pc = "done" /\ IsServerErrorResponse) => StatusOf(After) = Some(ERROR)

C4_Witness ==
    /\ pc = "done"
    /\ response = Some(503)
    /\ OnFailureCalled
    /\ StatusOf(Before) = Some(OK)
    /\ StatusOf(After) = Some(ERROR)

(* The traceparent format 00-<32 hex>-<16 hex>-<2 hex>, lower case, with a  *)
(* non-zero trace id and span id.                                           *)
IsLowerHex(c) == \E i \in 1..Len(HexChars) : HexChars[i] = c

WellFormedTraceparent(v) ==
    /\ Len(v) = 55
    /\ v[1] = "0" /\ v[2] = "0"
    /\ v[3] = "-" /\ v[36] = "-" /\ v[53] = "-"
    /\ \A i \in (4..35) \cup (37..52) \cup (54..55) : IsLowerHex(v[i])
    /\ \E i \in 4..35 : v[i] # "0"
    /\ \E i \in 37..52 : v[i] # "0"

MakeSpanCalled == call.op = "make_span"

TraceparentOfRequest == Unwrap(request).headers[TRACEPARENT_HEADER]

HasValidTraceparent ==
    /\ IsSome(TraceparentOfRequest)
    /\ WellFormedTraceparent(Unwrap(TraceparentOfRequest))

AdoptsRemoteContext ==
    LET v == Unwrap(TraceparentOfRequest)
    IN  /\ After.trace_id = Some(SubSeq(v, 4, 35))
        /\ IdToString(SpanTraceId(After)) = SubSeq(v, 4, 35)
        /\ IdToString(After.parent_cx.span_id) = SubSeq(v, 37, 52)
        /\ After.parent_cx.is_remote

C6_FreshTraceIdWithoutRemote ==
    (MakeSpanCalled
        /\ ~is_valid(extract(TraceContextPropagator, Unwrap(request).headers)))
    => /\ IsSome(After.trace_id)
       /\ Len(Unwrap(After.trace_id)) = 32
       /\ \A i \in 1..32 : IsLowerHex(Unwrap(After.trace_id)[i])
       /\ \E i \in 1..32 : Unwrap(After.trace_id)[i] # "0"
       /\ \E g \in GeneratedTraceIds : Unwrap(After.trace_id) = IdToString(g)
       /\ After.trace_id = Some(IdToString(SpanTraceId(After)))
       /\ ~is_valid(After.parent_cx)
       /\ ~After.parent_cx.is_remote

C6_Witness ==
    /\ MakeSpanCalled
    /\ call.propagator = TraceContextPropagator
    /\ TraceparentOfRequest = Some(InvalidTraceparent)
    /\ After.trace_id = Some(Rep("0", 31) \o <<"1">>)

XRequestIdOfRequest == Unwrap(request).headers[X_REQUEST_ID]

RequestIdOfRequest == Unwrap(request).headers[REQUEST_ID]

IsText(value) == \A i \in 1..Len(value) : value[i] # OpaqueByte

(* C7, as stated: the request id is the x-request-id value when that header *)
(* is present, else the request-id value when that one is present, else the *)
(* empty text.                                                              *)
C7_FirstPresentValue ==
    MakeSpanCalled =>
        After.request_id =
            IF IsSome(XRequestIdOfRequest) THEN XRequestIdOfRequest
            ELSE IF IsSome(RequestIdOfRequest) THEN RequestIdOfRequest
            ELSE Some(<< >>)

(* C7, amended: the request id is the value of x-request-id when present,   *)
(* else of request-id when present, provided that value is text; it is the  *)
(* empty text when that value is not text or neither header is present.     *)
C7_FirstPresentValueIfText ==
    MakeSpanCalled =>
        After.request_id =
            IF IsSome(XRequestIdOfRequest)
            THEN (IF IsText(Unwrap(XRequestIdOfRequest))
                  THEN XRequestIdOfRequest ELSE Some(<< >>))
            ELSE IF IsSome(RequestIdOfRequest)
            THEN (IF IsText(Unwrap(RequestIdOfRequest))
                  THEN RequestIdOfRequest ELSE Some(<< >>))
            ELSE Some(<< >>)

C7_Witness ==
    /\ MakeSpanCalled
    /\ XRequestIdOfRequest = Some(<<"a">>)
    /\ RequestIdOfRequest = Some(<<"b">>)
    /\ After.request_id = Some(<<"a">>)

(* Ordered lists of header names a caller might ask for. *)
Precedences ==
    {<<X_REQUEST_ID, REQUEST_ID>>, <<REQUEST_ID, X_REQUEST_ID>>,
     <<X_REQUEST_ID>>, <<REQUEST_ID>>}

(* First-match scan: the text of the first listed header that is present. *)
RECURSIVE FirstPresent(_, _)
FirstPresent(headers, precedence) ==
    IF precedence = << >> THEN << >>
    ELSE IF IsSome(headers[Head(precedence)])
    THEN (IF IsText(Unwrap(headers[Head(precedence)]))
          THEN Unwrap(headers[Head(precedence)]) ELSE << >>)
    ELSE FirstPresent(headers, Tail(precedence))

(* C8, as stated: for any ordered list of header names the caller supplies, *)
(* the resolver returns the value of the first listed header present.       *)
C8_AnyPrecedence ==
    MakeSpanCalled =>
        \A p \in Precedences :
            Resolve(Unwrap(request).headers, p) = FirstPresent(Unwrap(request).headers, p)

(* C8, amended: the resolver takes no list; whatever list the caller has in *)
(* mind, the result is that of the fixed list x-request-id, request-id.     *)
C8_FixedPrecedence ==
    MakeSpanCalled =>
        \A p \in Precedences :
            /\ Resolve(Unwrap(request).headers, p)
                  = FirstPresent(Unwrap(request).headers, <<X_REQUEST_ID, REQUEST_ID>>)
            /\ After.request_id = Some(Resolve(Unwrap(request).headers, p))

C8_Witness ==
    /\ MakeSpanCalled
    /\ XRequestIdOfRequest = Some(<<"a">>)
    /\ RequestIdOfRequest = Some(<<"b">>)
    /\ Resolve(Unwrap(request).headers, <<REQUEST_ID, X_REQUEST_ID>>) = <<"a">>

(* C9: otel.name is the method when no route matched, and the method, one   *)
(* space and the route when one matched.                                    *)
C9_SpanName ==
    MakeSpanCalled =>
        LET req == Unwrap(request)
        IN  After.otel_name =
                IF IsSome(req.matched_path)
                THEN Some(req.method \o <<" ">> \o Unwrap(req.matched_path))
                ELSE Some(req.method)

C9_Witness ==
    /\ MakeSpanCalled
    /\ After.otel_name =
          Some(<<"P", "O", "S", "T", " ", "/", "u", "/", "{", "i", "d", "}">>)

HeaderAbsentOrOpaque(name) ==
    LET h == Unwrap(request).headers[name]
    IN  ~IsSome(h) \/ ~IsText(Unwrap(h))

(* C10: every span make_span returns has status Unset and no                *)
(* http.status_code, and each of route, host, user agent, scheme, target    *)
(* and client address that the request lacks is unset on the span.          *)
C10_CreatedUnset ==
    MakeSpanCalled =>
        LET req == Unwrap(request)
        IN  /\ StatusOf(After) = Unset
            /\ After.http_status_code = None
            /\ (req.matched_path = None => After.http_route = None)
            /\ (HeaderAbsentOrOpaque(HOST) => After.http_host = None)
            /\ (HeaderAbsentOrOpaque(USER_AGENT) => After.http_user_agent = None)
            /\ (req.scheme = None => After.http_scheme = None)
            /\ (req.path_and_query = None => After.http_target = None)
            /\ (req.connect_info = None => After.http_client_ip = None)
            /\ After.http_method = Some(req.method)

C10_Witness ==
    /\ MakeSpanCalled
    /\ Unwrap(request).matched_path = None
    /\ Unwrap(request).scheme = None
    /\ Unwrap(request).path_and_query = None
    /\ Unwrap(request).connect_info = None
    /\ \A n \in HeaderNames : Unwrap(request).headers[n] = None
    /\ StatusOf(After) = Unset
    /\ After.http_host = None

(***************************************************************************)
(* Properties of the callers of trace/http.rs                              *)
(***************************************************************************)
ExtractCalled == call.op = "extract"

InjectCalled == call.op \in {"inject_request", "inject_response"}

(* The context now held was extracted from the request now held. *)
InjectsExtracted == InjectCalled /\ call.origin.op = "extract"

OutboundGet(name) == IF name \in DOMAIN outbound THEN outbound[name] ELSE None

(* Two lower-case hex characters. *)
IsHexByte(s) == Len(s) = 2 /\ IsLowerHex(s[1]) /\ IsLowerHex(s[2])

(* C11, as stated: for every traceparent 00-<32 hex>-<16 hex>-<2 hex> with  *)
(* non-zero ids, whatever the flags byte, extracting the context from the   *)
(* header and injecting that context gives the same traceparent text.       *)
C11_RoundTripEveryFlags ==
    (InjectsExtracted /\ HasValidTraceparent)
        => OutboundGet(TRACEPARENT_HEADER) = TraceparentOfRequest

(* C11, amended: the same for the flags bytes 00 and 01, when the W3C       *)
(* trace-context propagator was installed before the header was decoded.    *)
C11_RoundTripSampledBit ==
    (InjectsExtracted /\ HasValidTraceparent
        /\ call.origin.propagator = TraceContextPropagator
        /\ SubSeq(Unwrap(TraceparentOfRequest), 54, 55) \in {<<"0", "0">>, <<"0", "1">>})
        => OutboundGet(TRACEPARENT_HEADER) = TraceparentOfRequest

C11_Witness ==
    /\ InjectsExtracted
    /\ call.origin.propagator = TraceContextPropagator
    /\ TraceparentOfRequest =
          Some(TraceparentOf(<<"0", "0">>, OtherTraceId, OtherSpanId, <<"0", "0">>))
    /\ OutboundGet(TRACEPARENT_HEADER) = TraceparentOfRequest

AllZero(s) == \A i \in 1..Len(s) : s[i] = "0"

(* A traceparent value with the wrong number of segments, a segment of the  *)
(* wrong length, a character that is not a hex digit, or an all-zero id.    *)
Malformed(v) ==
    LET seg == Split(v, "-")
    IN  \/ Len(seg) # 4
        \/ Len(seg[1]) # 2 \/ Len(seg[2]) # 32 \/ Len(seg[3]) # 16 \/ Len(seg[4]) # 2
        \/ \E k \in 1..4 : \E i \in 1..Len(seg[k]) : ~IsHexChar(seg[k][i])
        \/ AllZero(seg[2]) \/ AllZero(seg[3])

HasMalformedTraceparent ==
    IsSome(TraceparentOfRequest) /\ Malformed(Unwrap(TraceparentOfRequest))

(* C12, as stated: a traceparent with a wrong segment count, non-hex        *)
(* characters, wrong segment lengths or an all-zero id decodes to an        *)
(* invalid context, and a span made for such a request has the generated    *)
(* trace id and no remote parent.                                           *)
C12_MalformedDecodesInvalid ==
    /\ (ExtractCalled /\ HasMalformedTraceparent) => ~is_valid(context)
    /\ (MakeSpanCalled /\ HasMalformedTraceparent)
          => /\ ~is_valid(After.parent_cx)
             /\ After.trace_id = Some(IdToString(After.builder_trace_id))

(* C13, as stated: a traceparent whose version segment is not 00 decodes to *)
(* an invalid context.                                                      *)
C13_OnlyVersion00 ==
    (ExtractCalled /\ IsSome(TraceparentOfRequest)
        /\ Split(Unwrap(TraceparentOfRequest), "-")[1] # <<"0", "0">>)
        => ~is_valid(context)

(* C13, amended: a traceparent whose version segment is ff decodes to an    *)
(* invalid context; one whose version is 01 through fe and whose trace id,  *)
(* span id and flags segments are well-formed decodes, with the propagator  *)
(* installed, to a valid context with those ids.                            *)
C13_VersionFfRejected ==
    (ExtractCalled /\ IsSome(TraceparentOfRequest)) =>
        LET seg == Split(Unwrap(TraceparentOfRequest), "-")
        IN  /\ seg[1] = <<"f", "f">> => ~is_valid(context)
            /\ (/\ call.propagator = TraceContextPropagator
                /\ Len(seg) >= 4
                /\ IsHexByte(seg[1]) /\ seg[1] \notin {<<"0", "0">>, <<"f", "f">>}
                /\ Len(seg[2]) = 32 /\ \A i \in 1..32 : IsLowerHex(seg[2][i])
                /\ ~AllZero(seg[2])
                /\ Len(seg[3]) = 16 /\ \A i \in 1..16 : IsLowerHex(seg[3][i])
                /\ ~AllZero(seg[3])
                /\ IsHexByte(seg[4]))
               => /\ is_valid(context)
                  /\ IdToString(context.trace_id) = seg[2]
                  /\ IdToString(context.span_id) = seg[3]

C13_Witness ==
    /\ ExtractCalled
    /\ call.propagator = TraceContextPropagator
    /\ TraceparentOfRequest =
          Some(TraceparentOf(<<"f", "f">>, SampleTraceId, SampleSpanId, <<"0", "1">>))
    /\ ~is_valid(context)

(* key=value entries joined with ',' in the order of the list. *)
RECURSIVE EntriesText(_)
EntriesText(entries) ==
    IF entries = << >> THEN << >>
    ELSE entries[1][1] \o <<"=">> \o entries[1][2]
             \o (IF Len(entries) > 1 THEN <<",">> \o EntriesText(Tail(entries))
                 ELSE << >>)

(* C14, as stated: injecting a context with a valid span context sets       *)
(* traceparent to 00-<trace id>-<span id>-<2 hex flags> and tracestate to   *)
(* the entries joined with ',' in order (the empty text for no entries).    *)
C14_InjectSetsHeaders ==
    (InjectCalled /\ is_valid(context)) =>
        /\ \E flags \in HexBytes :
              OutboundGet(TRACEPARENT_HEADER) =
                  Some(TraceparentOf(<<"0", "0">>, IdToString(context.trace_id),
                                     IdToString(context.span_id), flags))
        /\ OutboundGet(TRACESTATE_HEADER) = Some(EntriesText(context.trace_state))

(* C14, amended: the same when the W3C trace-context propagator is the      *)
(* process-wide propagator at the time of the injection; the flags are 01   *)
(* for a sampled context and 00 otherwise.                                  *)
C14_InjectSetsHeadersWhenInstalled ==
    (InjectCalled /\ is_valid(context) /\ call.propagator = TraceContextPropagator) =>
        /\ OutboundGet(TRACEPARENT_HEADER) =
              Some(TraceparentOf(<<"0", "0">>, IdToString(context.trace_id),
                                 IdToString(context.span_id),
                                 IF context.trace_flags % 2 = 1 THEN <<"0", "1">>
                                 ELSE <<"0", "0">>))
        /\ OutboundGet(TRACESTATE_HEADER) = Some(EntriesText(context.trace_state))

C14_Witness ==
    /\ InjectCalled
    /\ call.propagator = TraceContextPropagator
    /\ call.origin.op = "with_remote_span_context"
    /\ context.trace_state = <<<<(<<"k", "1">>), (<<"v", "1">>)>>,
                               <<(<<"k", "2">>), (<<"v", "2">>)>>>>
    /\ OutboundGet(TRACEPARENT_HEADER) = Some(ValidTraceparent)
    /\ OutboundGet(TRACESTATE_HEADER) =
          Some(<<"k", "1", "=", "v", "1", ",", "k", "2", "=", "v", "2">>)

(* C15: injecting a context that has no span adds neither traceparent nor   *)
(* tracestate and leaves the headers of the message as they were.           *)
C15_NoSpanNoHeaders ==
    (InjectCalled /\ context = EmptySpanContext) =>
        /\ outbound = Unwrap(call.before)
        /\ OutboundGet(TRACEPARENT_HEADER)
              = (IF TRACEPARENT_HEADER \in DOMAIN Unwrap(call.before)
                 THEN Unwrap(call.before)[TRACEPARENT_HEADER] ELSE None)
        /\ OutboundGet(TRACESTATE_HEADER)
              = (IF TRACESTATE_HEADER \in DOMAIN Unwrap(call.before)
                 THEN Unwrap(call.before)[TRACESTATE_HEADER] ELSE None)

C15_Witness ==
    /\ InjectCalled
    /\ call.propagator = TraceContextPropagator
    /\ context = EmptySpanContext
    /\ call.before = Some([n \in {X_REQUEST_ID} |-> Some(<<"a">>)])
    /\ outbound = [n \in {X_REQUEST_ID} |-> Some(<<"a">>)]
    /\ OutboundGet(TRACEPARENT_HEADER) = None

(***************************************************************************)
(* Properties of the dispatch and of the closing events                    *)
(***************************************************************************)
(* C16: a dispatch on any of the five levels makes exactly one emission,    *)
(* at that level and with the fields it was given; make_span's match gives  *)
(* the span the creator's level and the fields every other level gives;     *)
(* events and spans are dispatched on the same five levels.                 *)
C16_DispatchPreservesLevel ==
    /\ Cardinality(Levels) = 5
    /\ call.op = "dyn_event" =>
          /\ call.level \in Levels
          /\ events = <<[level |-> call.level, fields |-> call.fields]>>
    /\ call.op = "dyn_span" =>
          /\ call.level \in Levels
          /\ span = <<[level |-> call.level, name |-> call.name, fields |-> call.fields]>>
    /\ (call.op = "make_span" /\ pc = "dispatch") =>
          /\ After.level = call.level
          /\ \A lvl \in Levels :
                make_span([level |-> lvl], call.propagator, Unwrap(request),
                          After.builder_trace_id)
                    = [After EXCEPT !.level = lvl]

C16_Witness ==
    /\ call.op = "dyn_event"
    /\ call.level = "DEBUG"
    /\ call.fields = [request_id |-> <<"u", "u", "i", "d">>,
                      message |-> "processing request"]
    /\ Len(events) = 1
    /\ events[1].level = "DEBUG"
    /\ creator.level = "WARN"

(* C17: every on_response and every on_failure call emits exactly one       *)
(* event, at the level the component was configured with, carrying the      *)
(* latency in milliseconds and the status code (on_response) or the         *)
(* classification (on_failure), also when on_failure leaves the status as   *)
(* it was.                                                                  *)
C17_OneClosingEvent ==
    /\ OnResponseCalled =>
          /\ Len(events) = 1
          /\ events[1].level = handlers.on_response.level
          /\ DecimalValue(events[1].fields.latency) = call.latency \div 1000
          /\ DecimalValue(events[1].fields.status) = call.status
    /\ OnFailureCalled =>
          /\ Len(events) = 1
          /\ events[1].level = handlers.on_failure.level
          /\ DecimalValue(events[1].fields.latency) = call.latency \div 1000
          /\ LET text == events[1].fields.classification
             IN  IF call.class.kind = "StatusCode"
                 THEN /\ SubSeq(text, 1, 13) =
                            <<"S", "t", "a", "t", "u", "s", " ", "c", "o", "d", "e", ":", " ">>
                      /\ DecimalValue(SubSeq(text, 14, 16)) = call.class.code
                      /\ text[17] = " "
                 ELSE SubSeq(text, 1, 7) = <<"E", "r", "r", "o", "r", ":", " ">>

C17_Witness ==
    /\ OnFailureCalled
    /\ call.class = StatusCodeClass(404)
    /\ call.latency = 1500
    /\ After = Before
    /\ handlers.on_failure.level = "WARN"
    /\ Len(events) = 1
    /\ events[1].level = "WARN"
    /\ events[1].fields.latency = <<"1">>

(* C18: a request aborted after make_span and before a finalizer ran has no *)
(* closing event, and its span keeps status Unset and no http.status_code   *)
(* until it is closed.                                                      *)
C18_AbortedStaysUnset ==
    [][/\ pc' = "aborted" =>
              /\ events' = << >>
              /\ call'.op = "make_span"
              /\ StatusOf(Unwrap(span')) = Unset
              /\ Unwrap(span').http_status_code = None
       /\ pc = "aborted" =>
              \/ span' = span /\ events' = events /\ call' = call
              \/ pc' = "idle" /\ span' = None /\ events' = << >>]_vars

C18_Witness ==
    /\ pc = "aborted"
    /\ IsSome(span)
    /\ StatusOf(After) = Unset
    /\ After.http_status_code = None
    /\ events = << >>
    /\ propagator = TraceContextPropagator

(***************************************************************************)
(* Properties of requests in flight together                               *)
(***************************************************************************)
(* C19: under every interleaving, a step changes the span of one request    *)
(* only when it is a step of that request's task, so a finalizer call for   *)
(* one request leaves the status, status code and attributes of every other *)
(* request's span as they were; and no step changes the span creator or the *)
(* finalizer components.                                                    *)
C19_SpansIsolated ==
    [][/\ \A j \in Tasks : span'[j] # span[j] => call'.task = j
       /\ call'.op \in {"on_response", "on_failure"} =>
             /\ \A j \in Tasks \ {call'.task} : span'[j] = span[j]
             /\ span'[call'.task] =
                    Some(IF call'.op = "on_response"
                         THEN on_response(Unwrap(span[call'.task]), call'.status)
                         ELSE on_failure(Unwrap(span[call'.task]), call'.class))
       /\ creator' = creator
       /\ handlers' = handlers]_vars

(* A finalizer ran for task 2 while task 1's span, already finalized with   *)
(* another outcome, was live.                                               *)
C19_Witness ==
    /\ call.op = "on_failure"
    /\ call.task = 2
    /\ pc[1] = "done"
    /\ IsSome(span[1])
    /\ StatusOf(Unwrap(span[1])) = Some(OK)
    /\ Unwrap(span[1]).http_status_code = Some(<<"2", "0", "0">>)
    /\ StatusOf(Unwrap(span[2])) = Some(ERROR)
    /\ Unwrap(span[2]).http_status_code = Some(<<"5", "0", "3">>)

(***************************************************************************)
(* Properties of the deserializers                                         *)
(***************************************************************************)
(* The (key, value) pairs of the segments that are not blank, in order. *)
RECURSIVE PairsOf(_)
PairsOf(segments) ==
    IF segments = << >> THEN << >>
    ELSE IF Head(segments).kind = "pair"
    THEN <<(<<Head(segments).key, Head(segments).value>>)>> \o PairsOf(Tail(segments))
    ELSE PairsOf(Tail(segments))

AttributesDeserialized == pc = "parsed" /\ IsSome(output)

(* C20: for a text of comma-separated segments, each blank or key=value     *)
(* with optional spaces around the key and the value, deserialize_attributes *)
(* returns the pairs of the segments that are not blank, in input order and *)
(* without the surrounding spaces: no pair for the empty text or for a text *)
(* of spaces only.                                                          *)
C20_AttributesTrimmedInOrder ==
    (AttributesDeserialized
        /\ \A i \in 1..Len(input.segments) : input.segments[i].kind \in {"blank", "pair"})
        => Unwrap(output) = [ok |-> TRUE, value |-> PairsOf(input.segments)]

C20_Witness ==
    /\ AttributesDeserialized
    /\ input.text = <<" ", "k", " ", "=", " ", "v", " ", ",", " ", ",",
                      "k", "e", "y", "1", "=", "x", "=", "y">>
    /\ Unwrap(output) =
          [ok |-> TRUE,
           value |-> <<<<(<<"k">>), (<<"v">>)>>,
                       <<(<<"k", "e", "y", "1">>), (<<"x", "=", "y">>)>>>>]

HasMalformedSegment ==
    \E i \in 1..Len(input.segments) : input.segments[i].kind = "other"

(* C21: when any segment that is not blank has no '=', an empty key or an   *)
(* empty value, deserialize_attributes returns an error and no list of the  *)
(* pairs of the other segments, wherever that segment stands in the text.   *)
C21_MalformedSegmentIsError ==
    (AttributesDeserialized /\ HasMalformedSegment)
        => /\ ~Unwrap(output).ok
           /\ DOMAIN Unwrap(output) = {"ok", "error"}

C21_Witness ==
    /\ AttributesDeserialized
    /\ Len(input.segments) = 3
    /\ input.segments[1].kind = "pair"
    /\ input.segments[2].kind = "pair"
    /\ input.segments[3].kind = "other"
    /\ input.segments[3].text = <<"k", "e", "y", "1">>
    /\ Unwrap(output) =
          [ok |-> FALSE,
           error |-> <<"I", "n", "v", "a", "l", "i", "d", " ", "a", "t", "t", "r", "i",
                       "b", "u", "t", "e", ":", " ", "'", "k", "e", "y", "1", "'">>]

SpanEventsDeserialized == pc = "parsed_events" /\ IsSome(output)

(* Whether text starts with prefix. *)
StartsWith(text, prefix) ==
    Len(text) >= Len(prefix) /\ SubSeq(text, 1, Len(prefix)) = prefix

IsInvalidSpanEvents(result) ==
    /\ ~result.ok
    /\ StartsWith(result.error,
                  <<"I", "n", "v", "a", "l", "i", "d", " ", "s", "p", "a", "n", " ",
                    "e", "v", "e", "n", "t", "s">>)

HasUnrecognisedPart ==
    \E i \in 1..Len(input.parts) : input.parts[i].kind = "other"

(* C22: when any '|'-separated part of a span-events text that is not blank  *)
(* is not a span-event name, deserialize_span_events returns an "Invalid    *)
(* span events" error, whatever the position of the part and whatever the   *)
(* other parts are.                                                         *)
C22_UnrecognisedPartIsError ==
    (SpanEventsDeserialized /\ HasUnrecognisedPart)
        => IsInvalidSpanEvents(Unwrap(output))

(* The union of the flags the documented options of the parts name. *)
FlagsOf(parts) == UNION {FmtSpan[parts[i].name] : i \in 1..Len(parts)}

(* C23: a text of documented options FMT::NEW, FMT::ENTER, FMT::EXIT,        *)
(* FMT::CLOSE, FMT::NONE, FMT::ACTIVE and FMT::FULL, alone or joined with   *)
(* '|' and spaces around them, deserializes to the union of the flags they  *)
(* name, and a blank text deserializes to NONE.                             *)
C23_DocumentedOptionsAccepted ==
    SpanEventsDeserialized
        => /\ (\A i \in 1..Len(input.parts) : input.parts[i].kind = "option")
                => Unwrap(output) = [ok |-> TRUE, value |-> FlagsOf(input.parts)]
           /\ Trim(input.text) = << >>
                => Unwrap(output) = [ok |-> TRUE, value |-> FmtSpan.NONE]

LoggerBuiltFromEnv == pc = "parsed_env" /\ IsSome(output) /\ Unwrap(output).ok

(* C24: in a Logger built from the environment, every field whose variable  *)
(* is not set has the value Logger::default() gives it: format compact,     *)
(* ansi true, level info, sample ratio 1.0, metrics interval 30 seconds and *)
(* no attributes.                                                           *)
C24_UnsetVariableGetsDefault ==
    LoggerBuiltFromEnv
        => \A f \in LoggerFields :
              ~IsSome(input.env[f]) => Unwrap(output).value[f] = LoggerDefault[f]

(***************************************************************************)
(* Properties of Logger::init and the ProviderGuard                        *)
(***************************************************************************)
(* C25: Logger::init returns an Err value and does not panic when the       *)
(* tracing subscriber cannot be initialized, as when a global subscriber is *)
(* already installed by an earlier init.                                    *)
C25_InitReturnsErr ==
    (call.op = "init" /\ call.subscriber)
        => /\ pc # "panicked"
           /\ IsSome(output)
           /\ Unwrap(output) # Panic
           /\ ~Unwrap(output).ok

HeldBoth(self) == IsSome(self.tracer_provider) /\ IsSome(self.meter_provider)

(* C26: once a ProviderGuard holding a tracer provider and a meter provider *)
(* has been dropped, or shutdown() on it has returned Ok or Err, shutdown   *)
(* has been invoked on both providers, also when the tracer provider's      *)
(* shutdown fails.                                                          *)
C26_BothProvidersShutDown ==
    (call.op \in {"shutdown", "drop"} /\ HeldBoth(call.self))
        => /\ providers[Unwrap(call.self.tracer_provider)].shutdowns >= 1
           /\ providers[Unwrap(call.self.meter_provider)].shutdowns >= 1

C26_Witness ==
    /\ call.op = "shutdown"
    /\ HeldBoth(call.self)
    /\ "tracer" \in call.failing
    /\ output = Some(Err("InternalFailure"))
    /\ providers[Unwrap(call.self.tracer_provider)].shutdowns = 1
    /\ providers[Unwrap(call.self.meter_provider)].shutdowns = 1

(* C27: shutdown is invoked at most once on each provider a ProviderGuard   *)
(* holds, whether the guard is shut down and then dropped, or a clone of    *)
(* the guard is dropped or shut down as well.                               *)
C27_ShutdownAtMostOnce ==
    \A p \in 1..Len(providers) : providers[p].shutdowns <= 1

(***************************************************************************)
(* Properties of the process-wide propagator and of opaque request ids     *)
(***************************************************************************)
CreatedWithoutRemote ==
    /\ \E g \in GeneratedTraceIds : After.trace_id = Some(IdToString(g))
    /\ ~is_valid(After.parent_cx)
    /\ ~After.parent_cx.is_remote

C29_OpaqueXRequestIdNoFallback ==
    MakeSpanCalled =>
        /\ (IsSome(XRequestIdOfRequest) /\ ~IsText(Unwrap(XRequestIdOfRequest)))
              => After.request_id = Some(<< >>)
        /\ IsSome(XRequestIdOfRequest)
              => After.request_id \in {XRequestIdOfRequest, Some(<< >>)}

C29_Witness ==
    /\ MakeSpanCalled
    /\ XRequestIdOfRequest = Some(<<OpaqueByte, "c">>)
    /\ RequestIdOfRequest = Some(<<"b">>)
    /\ After.request_id = Some(<< >>)

====
